---- MODULE Spec2Model ----
(***************************************************************************)
(* Agent protocol and orchestration pipeline of RAG_QURAN:                 *)
(*   backend/core/retriever.py          retrieval and context formatting   *)
(*   backend/agents/retriever/agent.py  RetrieverAgent                     *)
(*   backend/agents/generator/agent.py  GeneratorAgent                     *)
(*   backend/agents/tools/tafsir_tool.py TafsirToolAgent                   *)
(*   backend/agents/orchestrator.py     A2AOrchestrator                    *)
(*   backend/mcp_servers/base_server.py BaseMCPServer                      *)
(*                                                                         *)
(* Python strings that the code splits, strips or concatenates are         *)
(* sequences of one-character strings.  Python None is NoneVal.            *)
(***************************************************************************)
EXTENDS Integers, Sequences, FiniteSets, TLC

VARIABLES
    retriever,          \* RetrieverAgent.retriever
    generator,          \* GeneratorAgent: cached configuration and generator chain
    available_tafsirs,  \* TafsirToolAgent.available_tafsirs, in insertion order
    last,               \* the call that has just returned, as its caller sees it
    calls,              \* process calls suspended on the worker pool, per task
    rag_system,         \* app/api.py globals rag_system_ready, initialization_error
    client_class        \* OpenAIClient._instance and OpenAIClient._client

vars == <<retriever, generator, available_tafsirs, last, calls, rag_system, client_class>>

-----------------------------------------------------------------------------
(* Bounds *)

\* longest candidate list the index hands back in one search
MaxCands == 2

\* number of documents the LLM extractor may drop from one candidate list
MaxDrop == 1

-----------------------------------------------------------------------------
(* Python values *)

NoneVal == -1

\* bool(x) for an Optional[int]
Truthy(x) == x # NoneVal /\ x # 0

-----------------------------------------------------------------------------
(* str operations used by the formatter and the source parser *)

NL == "\n"
SP == " "

StartsWith(s, p) == Len(s) >= Len(p) /\ SubSeq(s, 1, Len(p)) = p

SetMin(S) == CHOOSE x \in S : \A y \in S : x <= y

\* 1-based index of the first occurrence of p in s, 0 when absent (str.find + 1)
Find(s, p) ==
    LET occ == {j \in 1..(Len(s) - Len(p) + 1) : SubSeq(s, j, j + Len(p) - 1) = p}
    IN  IF occ = {} THEN 0 ELSE SetMin(occ)

\* p in s
Contains(s, p) == Find(s, p) # 0

RECURSIVE Split(_, _)
\* s.split(p)
Split(s, p) ==
    LET j == Find(s, p)
    IN  IF j = 0 THEN <<s>>
        ELSE <<SubSeq(s, 1, j - 1)>> \o Split(SubSeq(s, j + Len(p), Len(s)), p)

\* s.split(p, 1)
Split1(s, p) ==
    LET j == Find(s, p)
    IN  IF j = 0 THEN <<s>>
        ELSE <<SubSeq(s, 1, j - 1), SubSeq(s, j + Len(p), Len(s))>>

IsSpace(c) == c \in {SP, NL}

RECURSIVE LStrip(_)
LStrip(s) == IF s # <<>> /\ IsSpace(Head(s)) THEN LStrip(Tail(s)) ELSE s

RECURSIVE RStrip(_)
RStrip(s) ==
    IF s # <<>> /\ IsSpace(s[Len(s)]) THEN RStrip(SubSeq(s, 1, Len(s) - 1)) ELSE s

\* s.strip()
Strip(s) == RStrip(LStrip(s))

RECURSIVE Join(_, _)
\* sep.join(parts)
Join(parts, sep) ==
    IF parts = <<>> THEN <<>>
    ELSE IF Len(parts) = 1 THEN parts[1]
    ELSE parts[1] \o sep \o Join(Tail(parts), sep)

\* s.replace(p, "")
RECURSIVE Remove(_, _)
Remove(s, p) ==
    LET j == Find(s, p)
    IN  IF j = 0 THEN s
        ELSE SubSeq(s, 1, j - 1) \o Remove(SubSeq(s, j + Len(p), Len(s)), p)

-----------------------------------------------------------------------------
(* String literals of the code *)

QuranSrc == <<"q","u","r","a","n">>
TafsirPrefix == <<"t","a","f","s","i","r","_">>
QuranLabel == <<"[","Q","u","r","a","n"," ">>
TafsirLabel == <<"[","T","a","f","s","i","r"," ">>
OnWord == <<" ","o","n"," ">>
CloseMark == <<"]",":">>
CloseSp == <<"]",":"," ">>
ParaSep == <<NL, NL>>
NoInfo == <<"No relevant information found.">>

-----------------------------------------------------------------------------
(* Evidence chunks: langchain Documents as built by data_processing.py *)

Ref11 == <<"1",":","1">>
Ref12 == <<"1",":","2">>
Ref21 == <<"2",":","1">>
TafsirX == TafsirPrefix \o <<"x">>

\* load_quran_data: one document per verse, reference "<surah>:<verse>"
load_quran_data ==
    { [page_content |-> <<"a">>,
       metadata |-> [source |-> QuranSrc, surah_num |-> 1, verse_num |-> 1,
                     reference |-> Ref11]],
      [page_content |-> <<"b">>,
       metadata |-> [source |-> QuranSrc, surah_num |-> 1, verse_num |-> 2,
                     reference |-> Ref12]],
      [page_content |-> <<"c">>,
       metadata |-> [source |-> QuranSrc, surah_num |-> 2, verse_num |-> 1,
                     reference |-> Ref21]] }

\* load_tafsir_data followed by create_document_chunks: a long commentary is
\* split into chunks that all carry a copy of the same metadata
load_tafsir_data ==
    { [page_content |-> <<"d">>,
       metadata |-> [source |-> TafsirX, surah_num |-> 1, verse_num |-> 1,
                     reference |-> Ref11]],
      [page_content |-> <<"e">>,
       metadata |-> [source |-> TafsirX, surah_num |-> 1, verse_num |-> 1,
                     reference |-> Ref11]] }

\* the chunks stored in the vector index
Corpus == load_quran_data \cup load_tafsir_data

\* lists of pairwise distinct index entries of length n
RECURSIVE ListsOfLen(_, _)
ListsOfLen(S, n) ==
    IF n = 0 THEN {<<>>}
    ELSE UNION { { Append(l, d) : d \in S \ {l[i] : i \in 1..Len(l)} }
                 : l \in ListsOfLen(S, n - 1) }

\* what one similarity search can hand back: distinct index entries, best first
CandLists == UNION { ListsOfLen(Corpus, n) : n \in 0..MaxCands }

TheQuery == <<"w","h","y">>

-----------------------------------------------------------------------------
(* backend/core/retriever.py *)

NoFilter == [surah |-> NoneVal, verse |-> NoneVal]

\* dict.get(key) on document metadata
MetaGet(md, key) == IF key \in DOMAIN md THEN md[key] ELSE NoneVal

\* the vector store's metadata filter: every key of the filter dict must be
\* present in the document metadata with an equal value
MatchesFilter(md, f) ==
    /\ (f.surah # NoneVal => MetaGet(md, "surah") = f.surah)
    /\ (f.verse # NoneVal => MetaGet(md, "verse") = f.verse)

\* vector_store.as_retriever(search_type="similarity", search_kwargs={"k": k*3})
BaseRetriever(k) ==
    [kind |-> "base", search_kwargs |-> [k |-> k * 3, filter |-> NoFilter]]

\* create_enhanced_retriever; buildOK: get_chat_model / LLMChainExtractor.from_llm
\* did not raise
create_enhanced_retriever(k, use_compression, buildOK) ==
    IF ~use_compression THEN BaseRetriever(k)
    ELSE IF buildOK
         THEN [kind |-> "compression", search_kwargs |-> BaseRetriever(k).search_kwargs]
         ELSE BaseRetriever(k)

\* hasattr(retriever, 'search_kwargs'): a ContextualCompressionRetriever has
\* base_compressor and base_retriever only
HasSearchKwargs(r) == r.kind = "base"

\* results the similarity search may return under the given search_kwargs
SearchOK(kw, cands) ==
    /\ Len(cands) <= kw.k
    /\ \A i \in 1..Len(cands) : MatchesFilter(cands[i].metadata, kw.filter)

\* LLMChainExtractor: the extract of one chunk
Extract(content) == IF content = <<>> THEN content ELSE <<Head(content)>>

RECURSIVE Compress(_, _, _, _)
\* compress_documents: chunks with an empty extract are dropped, the others
\* keep their metadata and get the extract as content
Compress(docs, drop, shrink, i) ==
    IF i > Len(docs) THEN <<>>
    ELSE (IF i \in drop THEN <<>>
          ELSE << [page_content |-> IF shrink THEN Extract(docs[i].page_content)
                                    ELSE docs[i].page_content,
                   metadata |-> docs[i].metadata] >>)
         \o Compress(docs, drop, shrink, i + 1)

\* doc.metadata['query'] = query
TagQuery(docs, query) ==
    [i \in 1..Len(docs) |->
        [page_content |-> docs[i].page_content,
         metadata |-> docs[i].metadata @@ [query |-> query]]]

\* retrieve_relevant_context(retriever, query, filter_criteria).
\* env: search/compress are "ok" or "raise", cands is what the index returns,
\* drop/shrink is what the extractor does.  The result carries the returned
\* list and the retriever object as the call leaves it.
retrieve_relevant_context(r, query, filter_criteria, env) ==
    LET hasFilter == filter_criteria # NoFilter
        \* retriever.search_kwargs.update(search_kwargs)
        r1 == IF HasSearchKwargs(r) /\ hasFilter
              THEN [r EXCEPT !.search_kwargs.filter = filter_criteria]
              ELSE r
        \* the base retriever inside a compression retriever keeps its own kwargs
        failed == \/ env.search = "raise"
                  \/ (r.kind = "compression" /\ env.cands # <<>> /\ env.compress = "raise")
        found == IF r.kind = "compression"
                 THEN Compress(env.cands, env.drop, env.shrink, 1)
                 ELSE env.cands
        \* retriever.search_kwargs = original_kwargs
        r2 == IF HasSearchKwargs(r) /\ hasFilter
              THEN [r1 EXCEPT !.search_kwargs = r.search_kwargs]
              ELSE r1
    IN  IF failed
        THEN [documents |-> <<>>, retriever |-> r1, error |-> TRUE]
        ELSE [documents |-> TagQuery(found, query), retriever |-> r2, error |-> FALSE]

\* str.upper() of one character of a source name
UpperChar(c) ==
    CASE c = "x" -> "X" [] c = "y" -> "Y" [] c = "q" -> "Q" [] OTHER -> c

\* str.title() of a name without separators
TitleCase(s) == [i \in 1..Len(s) |-> IF i = 1 THEN UpperChar(s[i]) ELSE s[i]]

\* the rendering of one chunk with the reference right after a title-cased label
FormatEntry_TitleCased(doc) ==
    LET source == doc.metadata.source
        ref == doc.metadata.reference
    IN  IF source = QuranSrc
        THEN QuranLabel \o ref \o CloseSp \o doc.page_content
        ELSE IF StartsWith(source, TafsirPrefix)
        THEN TafsirLabel \o TitleCase(Remove(source, TafsirPrefix)) \o <<SP>> \o ref
             \o CloseSp \o doc.page_content
        ELSE <<"[">> \o source \o <<SP>> \o ref \o CloseSp \o doc.page_content

\* the label and the rendering of one chunk
FormatEntry(doc) ==
    LET source == doc.metadata.source
        ref == doc.metadata.reference
    IN  IF source = QuranSrc
        THEN QuranLabel \o ref \o CloseSp \o doc.page_content
        ELSE IF StartsWith(source, TafsirPrefix)
        THEN TafsirLabel \o Remove(source, TafsirPrefix) \o OnWord \o ref
             \o CloseSp \o doc.page_content
        ELSE <<"[">> \o source \o <<SP>> \o ref \o CloseSp \o doc.page_content

\* ref_key = f"{source}:{ref}"
RefKey(doc) == doc.metadata.source \o <<":">> \o doc.metadata.reference

RECURSIVE ContextParts(_, _, _)
\* the loop of format_context_from_docs with its seen_refs set
ContextParts(documents, i, seen_refs) ==
    IF i > Len(documents) THEN <<>>
    ELSE IF RefKey(documents[i]) \in seen_refs
         THEN ContextParts(documents, i + 1, seen_refs)
         ELSE <<FormatEntry(documents[i])>>
              \o ContextParts(documents, i + 1, seen_refs \cup {RefKey(documents[i])})

\* format_context_from_docs keeping the last chunk of every ref_key
format_context_from_docs_KeepsLast(documents) ==
    LET rev(l) == [i \in 1..Len(l) |-> l[Len(l) + 1 - i]]
    IN  IF documents = <<>> THEN NoInfo
        ELSE Join(rev(ContextParts(rev(documents), 1, {})), ParaSep)

format_context_from_docs(documents) ==
    IF documents = <<>> THEN NoInfo
    ELSE Join(ContextParts(documents, 1, {}), ParaSep)

-----------------------------------------------------------------------------
(* backend/agents/retriever/agent.py *)

\* request.parameters: `has` is the set of keys of the dict; None and {} are
\* both falsy and both have no keys
NoParams ==
    [has |-> {}, k |-> 5, use_compression |-> TRUE,
     surah_filter |-> NoneVal, verse_filter |-> NoneVal]

RetrieverParams ==
    { NoParams,
      [NoParams EXCEPT !.has = {"k", "use_compression"}],
      [NoParams EXCEPT !.has = {"k"}, !.k = 1],
      [NoParams EXCEPT !.has = {"use_compression"}, !.use_compression = FALSE],
      [NoParams EXCEPT !.has = {"surah_filter"}, !.surah_filter = 2] }

\* RetrieverAgentRequest
RetrieverAgentRequest ==
    [query : {TheQuery}, k : {1, 5}, use_compression : BOOLEAN,
     surah_filter : {NoneVal, 1}, verse_filter : {NoneVal, 1},
     parameters : RetrieverParams]

\* request.parameters.get(key, request.<key>) if request.parameters else request.<key>
RetrieverParam(request, key) ==
    IF request.parameters.has # {}
    THEN (IF key \in request.parameters.has THEN request.parameters[key] ELSE request[key])
    ELSE request[key]

\* the filter dict built by process; an absent key is NoneVal
FilterCriteria(surah_filter, verse_filter) ==
    [surah |-> IF Truthy(surah_filter) THEN surah_filter ELSE NoneVal,
     verse |-> IF Truthy(verse_filter) THEN verse_filter ELSE NoneVal]

\* serializable_docs
SerializableDocs(documents) ==
    [i \in 1..Len(documents) |->
        [content |-> documents[i].page_content, metadata |-> documents[i].metadata]]

\* RetrieverAgent._initialize_vector_store, after the index is loaded
InitialRetriever(buildOK) == create_enhanced_retriever(5, TRUE, buildOK)

\* RetrieverAgent.process(request) on an agent whose retriever is r
RetrieverAgentProcess(r, request, env) ==
    LET query == request.query
        k == RetrieverParam(request, "k")
        use_compression == RetrieverParam(request, "use_compression")
        surah_filter == RetrieverParam(request, "surah_filter")
        verse_filter == RetrieverParam(request, "verse_filter")
        filter_criteria == FilterCriteria(surah_filter, verse_filter)
        \* Update retriever if needed
        used == IF k # 5 \/ ~use_compression
                THEN create_enhanced_retriever(k, use_compression, env.build)
                ELSE r
        res == retrieve_relevant_context(used, query, filter_criteria, env)
        formatted_context == format_context_from_docs(res.documents)
    IN  [retriever |-> res.retriever,
         used |-> used,
         k |-> k,
         use_compression |-> use_compression,
         filter_criteria |-> filter_criteria,
         retrieval_error |-> res.error,
         raised |-> FALSE,
         response |-> [content |-> formatted_context,
                       metadata |-> [query |-> query, filter_criteria |-> filter_criteria],
                       documents |-> SerializableDocs(res.documents),
                       formatted_context |-> formatted_context]]

\* whether process builds a new retriever for this request
Rebuilds(request) ==
    RetrieverParam(request, "k") # 5 \/ ~RetrieverParam(request, "use_compression")

\* the retriever object the call will search with
RetrieverUsed(r, request, build) ==
    IF Rebuilds(request)
    THEN create_enhanced_retriever(RetrieverParam(request, "k"),
                                   RetrieverParam(request, "use_compression"), build)
    ELSE r

\* what the embedding provider, the index and the extractor can do during one
\* retrieval through retriever `used` with the given filter
RetrievalEnvs(used, filter_criteria, build) ==
    LET kw == IF HasSearchKwargs(used) /\ filter_criteria # NoFilter
              THEN [used.search_kwargs EXCEPT !.filter = filter_criteria]
              ELSE used.search_kwargs
        okLists == {c \in CandLists : SearchOK(kw, c)}
        quiet == [build |-> build, search |-> "ok", cands |-> <<>>,
                  compress |-> "ok", drop |-> {}, shrink |-> FALSE]
    IN  {[quiet EXCEPT !.search = "raise"]}
        \cup {[quiet EXCEPT !.cands = c] : c \in okLists}
        \cup (IF used.kind # "compression" THEN {}
              ELSE {[quiet EXCEPT !.cands = c, !.compress = "raise"]
                       : c \in okLists \ {<<>>}}
                   \cup UNION { {[quiet EXCEPT !.cands = c, !.drop = d, !.shrink = sh]
                                   : d \in {x \in SUBSET (1..Len(c)) : Cardinality(x) <= MaxDrop},
                                     sh \in BOOLEAN}
                                : c \in okLists \ {<<>>} })

-----------------------------------------------------------------------------
(* backend/agents/generator/agent.py *)

\* the loop of GeneratorAgent.process that parses the context into sources
SourceOfLine(line) ==
    IF StartsWith(line, <<"[">>) /\ Contains(line, CloseMark)
    THEN LET pieces == Split(line, CloseMark)
             reference_part == Tail(pieces[1])
             content_part == Strip(pieces[2])
         IN  IF Contains(reference_part, <<SP>>)
             THEN LET st_ref == Split1(reference_part, <<SP>>)
                  IN  << [source_type |-> st_ref[1], reference |-> st_ref[2],
                          content |-> content_part] >>
             ELSE <<>>
    ELSE <<>>

RECURSIVE FlatMapSources(_)
FlatMapSources(lines) ==
    IF lines = <<>> THEN <<>>
    ELSE SourceOfLine(Head(lines)) \o FlatMapSources(Tail(lines))

\* sources = [...] for line in context.split("\n\n")
ParseSources(context) == FlatMapSources(Split(context, ParaSep))

Models == {"gpt-3.5-turbo", "gpt-4"}

\* GeneratorAgent.__init__ with its defaults, generator chain built
InitialGenerator ==
    [model_name |-> "gpt-3.5-turbo", temperature |-> 0, max_tokens |-> 1000,
     chain |-> [model_name |-> "gpt-3.5-turbo", temperature |-> 0, max_tokens |-> 1000]]

\* _initialize_generator that never replaces the chain
InitializeGenerator_KeepsChain(g, initOK) == g

\* GeneratorAgent._initialize_generator: the chain is rebuilt from the cached
\* configuration; when create_answer_generator raises the old chain stays
InitializeGenerator(g, initOK) ==
    IF initOK
    THEN [g EXCEPT !.chain = [model_name |-> g.model_name,
                              temperature |-> g.temperature,
                              max_tokens |-> g.max_tokens]]
    ELSE g

\* the text a successful chain run returns
Answer == <<"a","n","s","w","e","r">>

\* generate_answer(generator, context, question): generator.run(...), whose
\* exception, if any, is not caught
generate_answer(chain, context, question, run) ==
    IF run = "ok" THEN [raised |-> FALSE, answer |-> Answer]
    ELSE [raised |-> TRUE, answer |-> <<>>]

NoGenParams ==
    [has |-> {}, context |-> <<>>, model_name |-> "gpt-3.5-turbo",
     temperature |-> 0, max_tokens |-> 1000]

\* request.parameters.get(key, dflt) if request.parameters else dflt
GeneratorParam(request, key, dflt) ==
    IF request.parameters.has # {}
    THEN (IF key \in request.parameters.has THEN request.parameters[key] ELSE dflt)
    ELSE dflt

\* GeneratorAgent.process(request) on an agent in state g.
\* env.init: _initialize_generator succeeds; env.run: the chain run "ok"/"raise"
GeneratorAgentProcess(g, request, env) ==
    LET query == request.query
        context == GeneratorParam(request, "context", request.context)
        model_name == GeneratorParam(request, "model_name", g.model_name)
        temperature == GeneratorParam(request, "temperature", g.temperature)
        max_tokens == GeneratorParam(request, "max_tokens", g.max_tokens)
        changed == \/ model_name # g.model_name
                   \/ temperature # g.temperature
                   \/ max_tokens # g.max_tokens
        g1 == IF changed
              THEN InitializeGenerator(
                       [g EXCEPT !.model_name = model_name,
                                 !.temperature = temperature,
                                 !.max_tokens = max_tokens], env.init)
              ELSE g
        init_failed == changed /\ ~env.init
        gen == generate_answer(g1.chain, context, query, env.run)
        sources == ParseSources(context)
    IN  IF init_failed
        THEN [generator |-> g1, raised |-> TRUE, init_failed |-> TRUE,
              generation_failed |-> FALSE, reinitialized |-> TRUE,
              context |-> context, used_chain |-> g1.chain,
              response |-> [answer |-> <<>>, sources |-> <<>>]]
        ELSE IF gen.raised
        THEN [generator |-> g1, raised |-> TRUE, init_failed |-> FALSE,
              generation_failed |-> TRUE, reinitialized |-> changed,
              context |-> context, used_chain |-> g1.chain,
              response |-> [answer |-> <<>>, sources |-> <<>>]]
        ELSE [generator |-> g1, raised |-> FALSE, init_failed |-> FALSE,
              generation_failed |-> FALSE, reinitialized |-> changed,
              context |-> context, used_chain |-> g1.chain,
              response |-> [answer |-> gen.answer, sources |-> sources]]

-----------------------------------------------------------------------------
(* backend/agents/tools/tafsir_tool.py *)

\* readable_name of a tafsir id (file name without .json)
ReadableName(id) == IF id = "en-x" THEN "X" ELSE IF id = "ar-y" THEN "Y" ELSE id

\* an unset Optional[str]
NoName == ""

\* str(n)
NumStr(n) == IF n = NoneVal THEN "None"
             ELSE IF n = 0 THEN "0" ELSE IF n = 1 THEN "1" ELSE IF n = 2 THEN "2"
             ELSE IF n = 3 THEN "3" ELSE "n"

RECURSIVE JoinNames(_)
\* ", ".join(names)
JoinNames(names) ==
    IF names = <<>> THEN <<>>
    ELSE IF Len(names) = 1 THEN <<names[1]>>
    ELSE <<names[1], ", ">> \o JoinNames(Tail(names))

\* TafsirToolAgent._load_available_tafsirs: the ids in os.listdir order; when
\* the directory cannot be listed the exception is printed and the dict is empty
load_available_tafsirs(listing) ==
    IF ~listing.readable THEN <<>> ELSE listing.files

\* os.listdir(tafsirs_dir): it raises, or gives the .json files in some order
TafsirListings ==
    { [readable |-> FALSE, files |-> <<>>],
      [readable |-> TRUE, files |-> <<>>],
      [readable |-> TRUE, files |-> <<"en-x">>],
      [readable |-> TRUE, files |-> <<"ar-y", "en-x">>] }

\* TafsirToolAgent._lookup_tafsir; file is what reading the tafsir file gives
lookup_tafsir(tafsir_name, surah, verse, file) ==
    IF file = "unreadable"
    THEN <<"Error retrieving tafsir: ", "io">>
    ELSE IF file = "has"
    THEN <<"tafsir ", tafsir_name, " ", NumStr(surah), ":", NumStr(verse)>>
    ELSE <<"No tafsir found for Surah ", NumStr(surah), ", Verse ", NumStr(verse),
           " in ", tafsir_name>>

TafsirFiles == {"unreadable", "has", "lacks"}

NoTafsirParams ==
    [has |-> {}, surah |-> 1, verse |-> 1, tafsir_name |-> NoName]

\* request.parameters.get(key, request.<key>) if request.parameters else request.<key>
TafsirParam(request, key) ==
    IF request.parameters.has # {}
    THEN (IF key \in request.parameters.has THEN request.parameters[key] ELSE request[key])
    ELSE request[key]

InSeq(x, sq) == \E i \in 1..Len(sq) : sq[i] = x

\* the response for a name that is not usable
InvalidTafsir(avail, surah, verse) ==
    LET msg == <<"Invalid tafsir name. Available tafsirs: ">> \o JoinNames(avail)
    IN  [raised |-> FALSE, looked_up |-> FALSE,
         response |-> [content |-> msg,
                       metadata |-> [error |-> "invalid_tafsir", available |-> avail],
                       tafsir_text |-> msg, tafsir_name |-> "",
                       surah |-> surah, verse |-> verse]]

\* process without the test of the name against available_tafsirs: the lookup
\* runs, and reading the readable name of an unregistered tafsir raises KeyError
TafsirToolAgentProcess_NoRegistryTest(avail, request, file) ==
    LET surah == TafsirParam(request, "surah")
        verse == TafsirParam(request, "verse")
        given == TafsirParam(request, "tafsir_name")
        tafsir_name == IF given = NoName /\ avail # <<>> THEN avail[1] ELSE given
        tafsir_text == IF InSeq(tafsir_name, avail)
                       THEN lookup_tafsir(tafsir_name, surah, verse, file)
                       ELSE <<"Error retrieving tafsir: ", "key">>
    IN  [raised |-> ~InSeq(tafsir_name, avail), looked_up |-> TRUE,
         response |-> [content |-> tafsir_text,
                       metadata |-> [tafsir |-> tafsir_name, surah |-> surah,
                                     verse |-> verse],
                       tafsir_text |-> tafsir_text,
                       tafsir_name |-> ReadableName(tafsir_name),
                       surah |-> surah, verse |-> verse]]

\* process without the default to the first available tafsir: an unset name
\* is answered as an invalid one
TafsirToolAgentProcess_NoDefault(avail, request, file) ==
    LET surah == TafsirParam(request, "surah")
        verse == TafsirParam(request, "verse")
        tafsir_name == TafsirParam(request, "tafsir_name")
    IN  IF tafsir_name = NoName \/ ~InSeq(tafsir_name, avail)
        THEN InvalidTafsir(avail, surah, verse)
        ELSE LET tafsir_text == lookup_tafsir(tafsir_name, surah, verse, file)
             IN  [raised |-> FALSE, looked_up |-> TRUE,
                  response |-> [content |-> tafsir_text,
                                metadata |-> [tafsir |-> tafsir_name, surah |-> surah,
                                              verse |-> verse],
                                tafsir_text |-> tafsir_text,
                                tafsir_name |-> ReadableName(tafsir_name),
                                surah |-> surah, verse |-> verse]]

\* TafsirToolAgent.process(request) on an agent whose available_tafsirs are avail
TafsirToolAgentProcess(avail, request, file) ==
    LET surah == TafsirParam(request, "surah")
        verse == TafsirParam(request, "verse")
        given == TafsirParam(request, "tafsir_name")
        \* Default to the first available tafsir if none specified
        tafsir_name == IF given = NoName /\ avail # <<>> THEN avail[1] ELSE given
    IN  IF tafsir_name = NoName \/ ~InSeq(tafsir_name, avail)
        THEN LET msg == <<"Invalid tafsir name. Available tafsirs: ">> \o JoinNames(avail)
             IN  [raised |-> FALSE, looked_up |-> FALSE,
                  response |-> [content |-> msg,
                                metadata |-> [error |-> "invalid_tafsir", available |-> avail],
                                tafsir_text |-> msg, tafsir_name |-> "",
                                surah |-> surah, verse |-> verse]]
        ELSE LET tafsir_text == lookup_tafsir(tafsir_name, surah, verse, file)
             IN  [raised |-> FALSE, looked_up |-> TRUE,
                  response |-> [content |-> tafsir_text,
                                metadata |-> [tafsir |-> tafsir_name, surah |-> surah,
                                              verse |-> verse],
                                tafsir_text |-> tafsir_text,
                                tafsir_name |-> ReadableName(tafsir_name),
                                surah |-> surah, verse |-> verse]]

TafsirParams ==
    { NoTafsirParams,
      [NoTafsirParams EXCEPT !.has = {"surah"}, !.surah = 2],
      [NoTafsirParams EXCEPT !.has = {"tafsir_name"}, !.tafsir_name = "zz"],
      [NoTafsirParams EXCEPT !.has = {"tafsir_name"}, !.tafsir_name = "ar-y"],
      [NoTafsirParams EXCEPT !.has = {"verse", "tafsir_name"}, !.verse = 3] }

\* TafsirLookupRequest
TafsirLookupRequest ==
    [query : {TheQuery}, surah : {1, 2}, verse : {1, 2},
     tafsir_name : {NoName, "en-x", "ar-y", "zz"}, parameters : TafsirParams]

-----------------------------------------------------------------------------
(* backend/agents/tools/translation/agent.py *)

\* number of surahs in data/quran.json
SurahCount == 114

\* most verses a surah of the modelled data file has
MaxVerses == 3

\* len(surah_data["verses"]) of surah s
VerseCount(s) == 1 + (s % MaxVerses)

\* TranslationToolAgent._load_quran_data: self.quran_data["surahs"], one entry
\* per surah, each with its verses in order
quran_data ==
    [s \in 1..SurahCount |->
        [v \in 1..VerseCount(s) |-> [text |-> [surah |-> s, ayah |-> v]]]]

\* TranslationToolAgent.__init__: default_translation
default_translation == "en-sahih-international"

\* TranslationToolAgent._load_available_translations
available_translations ==
    [n \in {"en-sahih-international", "en-yusuf-ali"} |->
        IF n = "en-sahih-international" THEN "Sahih International (English)"
        ELSE "Yusuf Ali (English)"]

\* self.available_translations.get(translation_name, translation_name)
TranslationDisplayName(name) ==
    IF name \in DOMAIN available_translations THEN available_translations[name] ELSE name

\* TranslationToolAgent._translate_verse
translate_verse(verse_data, translation_name) ==
    [surah |-> verse_data.surah, verse |-> verse_data.number,
     wording |-> IF translation_name = "en-sahih-international"
                 THEN "Sahih International English"
                 ELSE IF translation_name = "en-yusuf-ali" THEN "Yusuf Ali English"
                 ELSE IF translation_name = NoName THEN "None"
                 ELSE translation_name]

\* TranslationToolAgent._get_verse
get_verse(surah_idx, verse) ==
    LET verses == quran_data[surah_idx + 1]
    IN  IF verse < 1 \/ verse > Len(verses)
        THEN [raised |-> TRUE, verses |-> <<>>]
        ELSE [raised |-> FALSE,
              verses |-> << [arabic |-> verses[verse].text, number |-> verse,
                             surah |-> surah_idx + 1] >>]

\* TranslationToolAgent._get_verses: range(start_verse - 1, end_verse)
get_verses(surah_idx, start_verse, end_verse) ==
    LET verses == quran_data[surah_idx + 1]
    IN  IF start_verse < 1 \/ end_verse > Len(verses) \/ start_verse > end_verse
        THEN [raised |-> TRUE, verses |-> <<>>]
        ELSE [raised |-> FALSE,
              verses |-> [i \in 1..(end_verse - start_verse + 1) |->
                             [arabic |-> verses[start_verse - 1 + i].text,
                              number |-> start_verse - 1 + i,
                              surah |-> surah_idx + 1]]]

NoTranslationParams ==
    [has |-> {}, surah |-> 1, verse |-> 1, end_verse |-> NoneVal,
     translation_name |-> NoName]

\* request.parameters.get(key, request.<key>) if request.parameters else request.<key>
TranslationParam(request, key) ==
    IF request.parameters.has # {}
    THEN (IF key \in request.parameters.has THEN request.parameters[key] ELSE request[key])
    ELSE request[key]

\* the response that was not built because process raised
NoTranslation ==
    [content |-> <<>>, arabic_text |-> <<>>, translated_text |-> <<>>,
     translation_name |-> NoName,
     reference |-> [surah |-> NoneVal, verse |-> NoneVal, end_verse |-> NoneVal],
     metadata |-> [surah |-> NoneVal, verse |-> NoneVal, end_verse |-> NoneVal,
                   translation |-> NoName]]

\* TranslationToolAgent.process(request).  arabic_text and translated_text are
\* the lines joined by "\n", one line per verse.  error: "value" for the
\* ValueError of the bounds tests, "model" for the validation error of
\* TranslationResponse, whose translation_name is a required str
TranslationToolAgentProcess(request) ==
    LET surah == TranslationParam(request, "surah")
        verse == TranslationParam(request, "verse")
        end_verse == TranslationParam(request, "end_verse")
        translation_name == TranslationParam(request, "translation_name")
        surah_idx == surah - 1
        got == IF end_verse # NoneVal
               THEN get_verses(surah_idx, verse, end_verse)
               ELSE get_verse(surah_idx, verse)
        translated_text ==
            [i \in 1..Len(got.verses) |-> translate_verse(got.verses[i], translation_name)]
        arabic_text == [i \in 1..Len(got.verses) |-> got.verses[i].arabic]
        translation_display_name == TranslationDisplayName(translation_name)
        failure(kind) ==
            [raised |-> TRUE, error |-> kind, surah |-> surah, verse |-> verse,
             end_verse |-> end_verse, translation |-> translation_name,
             verses |-> <<>>, response |-> NoTranslation]
    IN  IF surah < 1 \/ surah > 114 THEN failure("value")
        ELSE IF got.raised THEN failure("value")
        ELSE IF translation_display_name = NoName THEN failure("model")
        ELSE [raised |-> FALSE, error |-> "none", surah |-> surah, verse |-> verse,
              end_verse |-> end_verse, translation |-> translation_name,
              verses |-> got.verses,
              response |->
                  [content |-> translated_text,
                   arabic_text |-> arabic_text,
                   translated_text |-> translated_text,
                   translation_name |-> translation_display_name,
                   reference |-> [surah |-> surah, verse |-> verse, end_verse |-> end_verse],
                   metadata |-> [surah |-> surah, verse |-> verse, end_verse |-> end_verse,
                                 translation |-> translation_name]]]

TranslationNames == {NoName, "en-sahih-international", "en-yusuf-ali", "fr-x"}

TranslationParams ==
    { NoTranslationParams,
      [NoTranslationParams EXCEPT !.has = {"surah"}, !.surah = 2],
      [NoTranslationParams EXCEPT !.has = {"end_verse"}, !.end_verse = 2],
      [NoTranslationParams EXCEPT !.has = {"translation_name"},
                                  !.translation_name = "en-yusuf-ali"] }

\* TranslationRequest
TranslationRequest ==
    [query : {TheQuery}, surah : {0, 1, 2, SurahCount, SurahCount + 1},
     verse : 0..(MaxVerses + 1), end_verse : {NoneVal} \cup (0..(MaxVerses + 1)),
     translation_name : TranslationNames, parameters : TranslationParams]

-----------------------------------------------------------------------------
(* backend/agents/orchestrator.py *)

\* QuranQueryRequest
QuranQueryRequest ==
    [query : {TheQuery}, surah_filter : {NoneVal, 1}, verse_filter : {NoneVal, 1},
     model_name : Models, use_direct_tafsir : BOOLEAN]

\* step 2 guarded by use_direct_tafsir alone
WantsDirectTafsir_IgnoresFilters(request) == request.use_direct_tafsir

\* step 2 of process_query runs
WantsDirectTafsir(request) ==
    request.use_direct_tafsir /\ Truthy(request.surah_filter) /\ Truthy(request.verse_filter)

\* the request process_query builds for the Retriever Agent
OrchRetrieverRequest(request) ==
    [query |-> request.query, k |-> 5, use_compression |-> TRUE,
     surah_filter |-> request.surah_filter, verse_filter |-> request.verse_filter,
     parameters |-> [NoParams EXCEPT !.has = {"k", "use_compression"}]]

\* the request process_query builds for the Generator Agent
OrchGeneratorRequest(request, context) ==
    [query |-> request.query, context |-> context, model_name |-> request.model_name,
     temperature |-> 0, max_tokens |-> 1000,
     parameters |-> [NoGenParams EXCEPT !.has = {"context", "model_name"},
                                        !.context = context,
                                        !.model_name = request.model_name]]

\* the standardized source entries built from the retriever's documents
DocSources(documents) ==
    [i \in 1..Len(documents) |->
        [source_type |-> documents[i].metadata.source,
         reference |-> documents[i].metadata.reference,
         content |-> documents[i].content]]

\* process_query that also puts the text of the direct tafsir lookup in front of
\* the context it hands to the Generator Agent
A2AProcessQuery_TafsirInContext(r, g, avail, request, env) ==
    LET filters_applied ==
            [surah_filter |-> IF Truthy(request.surah_filter)
                              THEN request.surah_filter ELSE NoneVal,
             verse_filter |-> IF Truthy(request.verse_filter)
                              THEN request.verse_filter ELSE NoneVal]
        direct == WantsDirectTafsir(request)
        tafsir_request ==
            [query |-> <<"Get tafsir">>, surah |-> request.surah_filter,
             verse |-> request.verse_filter, tafsir_name |-> NoName,
             parameters |-> NoTafsirParams]
        tafsir == TafsirToolAgentProcess(avail, tafsir_request, env.file)
        tafsir_response == tafsir.response
        direct_tafsir_result ==
            [tafsir_name |-> tafsir_response.tafsir_name,
             surah |-> tafsir_response.surah,
             verse |-> tafsir_response.verse,
             text |-> tafsir_response.tafsir_text]
        tafsir_sources ==
            IF direct
            THEN << [source_type |-> <<"t","a","f","s","i","r">>,
                     reference |-> <<NumStr(request.surah_filter), ":",
                                     NumStr(request.verse_filter)>>,
                     content |-> tafsir_response.tafsir_text] >>
            ELSE <<>>
        retr == RetrieverAgentProcess(r, OrchRetrieverRequest(request), env.retrieval)
        context == IF direct
                   THEN tafsir_response.tafsir_text \o ParaSep
                        \o retr.response.formatted_context
                   ELSE retr.response.formatted_context
        all_sources == tafsir_sources \o DocSources(retr.response.documents)
        gen == GeneratorAgentProcess(g, OrchGeneratorRequest(request, context),
                                     env.generation)
    IN  [retriever |-> retr.retriever,
         generator |-> IF retr.raised THEN g ELSE gen.generator,
         tafsir_invoked |-> direct,
         tafsir_looked_up |-> direct /\ tafsir.looked_up,
         retrieval |-> retr,
         generator_invoked |-> ~retr.raised,
         generator_context |-> context,
         generation |-> gen,
         raised |-> retr.raised \/ gen.raised,
         response |-> [answer |-> gen.response.answer,
                       sources |-> all_sources,
                       filters_applied |-> filters_applied,
                       has_direct_tafsir |-> direct,
                       direct_tafsir |-> direct_tafsir_result]]

\* A2AOrchestrator.process_query(request).  r, g, avail: the state of the three
\* agents; env.file, env.retrieval, env.generation: what the outside does
A2AProcessQuery(r, g, avail, request, env) ==
    LET filters_applied ==
            [surah_filter |-> IF Truthy(request.surah_filter)
                              THEN request.surah_filter ELSE NoneVal,
             verse_filter |-> IF Truthy(request.verse_filter)
                              THEN request.verse_filter ELSE NoneVal]
        direct == WantsDirectTafsir(request)
        tafsir_request ==
            [query |-> <<"Get tafsir">>, surah |-> request.surah_filter,
             verse |-> request.verse_filter, tafsir_name |-> NoName,
             parameters |-> NoTafsirParams]
        tafsir == TafsirToolAgentProcess(avail, tafsir_request, env.file)
        tafsir_response == tafsir.response
        direct_tafsir_result ==
            [tafsir_name |-> tafsir_response.tafsir_name,
             surah |-> tafsir_response.surah,
             verse |-> tafsir_response.verse,
             text |-> tafsir_response.tafsir_text]
        tafsir_sources ==
            IF direct
            THEN << [source_type |-> <<"t","a","f","s","i","r">>,
                     reference |-> <<NumStr(request.surah_filter), ":",
                                     NumStr(request.verse_filter)>>,
                     content |-> tafsir_response.tafsir_text] >>
            ELSE <<>>
        retr == RetrieverAgentProcess(r, OrchRetrieverRequest(request), env.retrieval)
        context == retr.response.formatted_context
        all_sources == tafsir_sources \o DocSources(retr.response.documents)
        gen == GeneratorAgentProcess(g, OrchGeneratorRequest(request, context),
                                     env.generation)
    IN  [retriever |-> retr.retriever,
         generator |-> IF retr.raised THEN g ELSE gen.generator,
         tafsir_invoked |-> direct,
         tafsir_looked_up |-> direct /\ tafsir.looked_up,
         retrieval |-> retr,
         generator_invoked |-> ~retr.raised,
         generator_context |-> context,
         generation |-> gen,
         raised |-> retr.raised \/ gen.raised,
         response |-> [answer |-> gen.response.answer,
                       sources |-> all_sources,
                       filters_applied |-> filters_applied,
                       has_direct_tafsir |-> direct,
                       direct_tafsir |-> direct_tafsir_result]]

\* what the model backend can do during one GeneratorAgent.process
GenerationEnvs(changed) ==
    [init : IF changed THEN BOOLEAN ELSE {TRUE}, run : {"ok", "raise"}]

-----------------------------------------------------------------------------
(* backend/mcp_servers/base_server.py, backend/mcp_servers/tafsir/server.py *)

\* ToolExecutionResult(result=...) and ToolExecutionResult(error=...)
ResultOf(value) == [has_result |-> TRUE, has_error |-> FALSE, result |-> value, error |-> <<>>]
ErrorOf(msg) == [has_result |-> FALSE, has_error |-> TRUE, result |-> <<>>, error |-> msg]

\* a parameter value that is truthy but not an integer
BadInt == -2

\* the tools of a TafsirMCPServer, the default tool, and two tools handed to
\* BaseMCPServer.__init__ through `tools`; coroutine: asyncio.iscoroutinefunction
RegisteredTools ==
    [name : {"lookup_tafsir", "list_tafsirs", "get_version", "custom_async"},
     coroutine : {TRUE}]
    \cup [name : {"custom_sync"}, coroutine : {FALSE}]

RegisteredNames == {t.name : t \in RegisteredTools}

\* names a client may send: the registered ones, and two that are not
ToolNames == RegisteredNames \cup {"nonexistent_tool", "retrieve"}

\* Server.get_registered_tool(name): the tool, or a falsy value
get_registered_tool(name) ==
    IF \E t \in RegisteredTools : t.name = name
    THEN [found |-> TRUE, tool |-> CHOOSE t \in RegisteredTools : t.name = name]
    ELSE [found |-> FALSE, tool |-> [name |-> name, coroutine |-> FALSE]]

\* BaseMCPServer._handle_get_version
handle_get_version(params) ==
    [raised |-> FALSE, value |-> ResultOf(<<"1.0.0", "tafsir-lookup">>)]

\* TafsirMCPServer._handle_lookup_tafsir
handle_lookup_tafsir(params, avail, file) ==
    LET surah == params.surah
        verse == params.verse
        tafsir_name == params.tafsir_name
    IN  IF ~Truthy(surah) THEN [raised |-> FALSE, value |-> ErrorOf(<<"Surah is required">>)]
        ELSE IF ~Truthy(verse)
        THEN [raised |-> FALSE, value |-> ErrorOf(<<"Verse is required">>)]
        ELSE IF surah = BadInt \/ verse = BadInt
        \* TafsirLookupRequest(...) fails validation; the handler's except turns
        \* the exception into an error result
        THEN [raised |-> FALSE,
              value |-> ErrorOf(<<"Error looking up tafsir: ", "validation">>)]
        ELSE LET request == [query |-> <<"Lookup tafsir">>, surah |-> surah,
                             verse |-> verse, tafsir_name |-> tafsir_name,
                             parameters |-> NoTafsirParams]
                 out == TafsirToolAgentProcess(avail, request, file)
             IN  [raised |-> FALSE,
                  value |-> ResultOf([tafsir_text |-> out.response.tafsir_text,
                                      tafsir_name |-> out.response.tafsir_name,
                                      surah |-> out.response.surah,
                                      verse |-> out.response.verse])]

\* TafsirMCPServer._handle_list_tafsirs
handle_list_tafsirs(params, avail) ==
    [raised |-> FALSE,
     value |-> ResultOf([i \in 1..Len(avail) |->
                            [id |-> avail[i], name |-> ReadableName(avail[i])]])]

\* a handler given through `tools`: it returns a result, returns an error, or raises
handle_custom(params, behaviour) ==
    IF behaviour = "raise" THEN [raised |-> TRUE, value |-> ErrorOf(<<>>)]
    ELSE IF behaviour = "error" THEN [raised |-> FALSE, value |-> ErrorOf(<<"custom error">>)]
    ELSE [raised |-> FALSE, value |-> ResultOf(<<"custom result">>)]

\* tool.handler(tool_call.parameters)
CallHandler(name, params, avail, env) ==
    IF name = "get_version" THEN handle_get_version(params)
    ELSE IF name = "lookup_tafsir" THEN handle_lookup_tafsir(params, avail, env.file)
    ELSE IF name = "list_tafsirs" THEN handle_list_tafsirs(params, avail)
    ELSE handle_custom(params, env.behaviour)

\* execute_tool without the `if not tool` test: tool.handler on a missing tool
\* raises, and the except clause reports it
execute_tool_NoLookupTest(tool_call, avail, env) ==
    LET looked == get_registered_tool(tool_call.name)
    IN  IF ~looked.found
        THEN [raised |-> FALSE, handler_invoked |-> FALSE, handler_raised |-> FALSE,
              value |-> ErrorOf(<<"Error executing tool ", tool_call.name,
                                  ": ", "exception">>)]
        ELSE LET h == CallHandler(tool_call.name, tool_call.parameters, avail, env)
             IN  IF h.raised
                 THEN [raised |-> FALSE, handler_invoked |-> TRUE, handler_raised |-> TRUE,
                       value |-> ErrorOf(<<"Error executing tool ", tool_call.name,
                                           ": ", "exception">>)]
                 ELSE [raised |-> FALSE, handler_invoked |-> TRUE,
                       handler_raised |-> FALSE, value |-> h.value]

\* execute_tool without its try/except: a handler's exception reaches the caller
execute_tool_NoExcept(tool_call, avail, env) ==
    LET looked == get_registered_tool(tool_call.name)
    IN  IF ~looked.found
        THEN [raised |-> FALSE, handler_invoked |-> FALSE, handler_raised |-> FALSE,
              value |-> ErrorOf(<<"Tool not found: ", tool_call.name>>)]
        ELSE LET h == CallHandler(tool_call.name, tool_call.parameters, avail, env)
             IN  IF h.raised
                 THEN [raised |-> TRUE, handler_invoked |-> TRUE, handler_raised |-> TRUE,
                       value |-> [has_result |-> FALSE, has_error |-> FALSE,
                                  result |-> <<>>, error |-> <<>>]]
                 ELSE [raised |-> FALSE, handler_invoked |-> TRUE,
                       handler_raised |-> FALSE, value |-> h.value]

\* BaseMCPServer.execute_tool(tool_call)
execute_tool(tool_call, avail, env) ==
    LET looked == get_registered_tool(tool_call.name)
    IN  IF ~looked.found
        THEN [raised |-> FALSE, handler_invoked |-> FALSE, handler_raised |-> FALSE,
              value |-> ErrorOf(<<"Tool not found: ", tool_call.name>>)]
        ELSE LET h == CallHandler(tool_call.name, tool_call.parameters, avail, env)
             IN  IF h.raised
                 \* except Exception as e
                 THEN [raised |-> FALSE, handler_invoked |-> TRUE, handler_raised |-> TRUE,
                       value |-> ErrorOf(<<"Error executing tool ", tool_call.name,
                                           ": ", "exception">>)]
                 ELSE [raised |-> FALSE, handler_invoked |-> TRUE,
                       handler_raised |-> FALSE, value |-> h.value]

\* parameter objects sent to the tools; a missing key reads as None
ToolParams ==
    [surah : {NoneVal, 0, 1, BadInt}, verse : {NoneVal, 1, 2},
     tafsir_name : {NoName, "en-x", "zz"}]

ToolCall == [name : ToolNames, parameters : ToolParams]

-----------------------------------------------------------------------------
(* Inputs of the generator *)

Ref31 == <<"3",":","1">>
Ref32 == <<"3",":","2">>

\* chunks whose text has a paragraph break or a "]:", and a chunk of a source
\* that is neither the Quran nor a tafsir
OtherDocs ==
    { [page_content |-> <<"p", NL, NL, "q">>,
       metadata |-> [source |-> QuranSrc, surah_num |-> 3, verse_num |-> 1,
                     reference |-> Ref31]],
      [page_content |-> <<"[", "k", "]", ":", "v">>,
       metadata |-> [source |-> QuranSrc, surah_num |-> 3, verse_num |-> 2,
                     reference |-> Ref32]],
      [page_content |-> <<"g">>,
       metadata |-> [source |-> <<"h">>, surah_num |-> 1, verse_num |-> 1,
                     reference |-> Ref11]] }

\* longest document list formatted into one context
MaxDocs == 2

DocLists == UNION { ListsOfLen(Corpus \cup OtherDocs, n) : n \in 0..MaxDocs }

FormattedOf == [d \in DocLists |-> format_context_from_docs(d)]

\* contexts handed to the generator: formatted evidence, or any other text
Contexts == {FormattedOf[d] : d \in DocLists} \cup {<<"f","r","e","e">>}

GeneratorParams ==
    { NoGenParams,
      [NoGenParams EXCEPT !.has = {"model_name"}, !.model_name = "gpt-4"],
      [NoGenParams EXCEPT !.has = {"temperature"}, !.temperature = 1],
      [NoGenParams EXCEPT !.has = {"max_tokens"}, !.max_tokens = 500],
      [NoGenParams EXCEPT !.has = {"context", "model_name"}, !.context = NoInfo] }

\* GeneratorAgentRequest
GeneratorAgentRequest ==
    [query : {TheQuery}, context : Contexts, model_name : Models,
     temperature : {0}, max_tokens : {1000}, parameters : GeneratorParams]

\* the call carries model parameters that differ from the cached ones
ConfigChanged(g, request) ==
    \/ GeneratorParam(request, "model_name", g.model_name) # g.model_name
    \/ GeneratorParam(request, "temperature", g.temperature) # g.temperature
    \/ GeneratorParam(request, "max_tokens", g.max_tokens) # g.max_tokens

-----------------------------------------------------------------------------
(* app/api.py: the REST application.  The module is loaded with
   DEBUG_MODE = False and FALLBACK_MODE = False, so the branches that those
   flags guard are never taken; the handler below is the remaining code. *)

DEBUG_MODE == FALSE
FALLBACK_MODE == FALSE

\* None where the code expects a str; no text of the model equals it
NoneText == <<"<None>">>

\* the module globals before startup_event has run
NotStarted == [rag_system_ready |-> FALSE, initialization_error |-> NoneText]

\* startup_event: rag_system_ready is set once the embeddings, the index and
\* the document store are all loaded; any exception is kept as text instead
startup_event(state, loaded) ==
    IF loaded
    THEN [state EXCEPT !.rag_system_ready = TRUE]
    ELSE [state EXCEPT !.initialization_error = <<"load failed">>]

\* raise HTTPException(status_code=...): no response body is produced
HTTPException(status_code) ==
    [status_code |-> status_code, answered |-> FALSE,
     answer |-> NoneText, sources |-> <<>>, filters_applied |-> NoFilter,
     created |-> FALSE, direct_calls |-> 0, chain_calls |-> 0]

\* return AnswerResponse(...): FastAPI sends it with status 200
AnswerResponse(answer, sources, filters, created, direct_calls, chain_calls) ==
    [status_code |-> 200, answered |-> TRUE,
     answer |-> answer, sources |-> sources, filters_applied |-> filters,
     created |-> created, direct_calls |-> direct_calls,
     chain_calls |-> chain_calls]

\* the filters dict of ask_question: a key is set only for a truthy field
RestFilters(request) ==
    [surah |-> IF Truthy(request.surah_filter) THEN request.surah_filter ELSE NoneVal,
     verse |-> IF Truthy(request.verse_filter) THEN request.verse_filter ELSE NoneVal]

\* one entry of the results list, from a document store entry
ResultOfEntry(doc) == [content |-> doc.page_content, metadata |-> doc.metadata]

\* the post-filter of retrieve_documents: an entry is left out only when it
\* carries a surah_number different from the surah filter
Included(doc, filters) ==
    ~ (/\ Truthy(filters.surah)
       /\ "surah_number" \in DOMAIN doc.metadata
       /\ doc.metadata["surah_number"] # filters.surah)

\* retrieve_documents, with every failure answered by an empty result list
retrieve_documents_Swallows(query, filters, state, env) ==
    IF ~state.rag_system_ready
    THEN [raised |-> FALSE, status_code |-> 200, results |-> <<>>]
    ELSE IF env.outcome # "ok"
    THEN [raised |-> FALSE, status_code |-> 200, results |-> <<>>]
    ELSE [raised |-> FALSE, status_code |-> 200,
          results |-> [i \in 1..Len(SelectSeq(env.hits, LAMBDA d : Included(d, filters)))
                       |-> ResultOfEntry(SelectSeq(env.hits, LAMBDA d : Included(d, filters))[i])]]

\* retrieve_documents(query, filters): env.outcome says whether embedding the
\* query or searching the index raised, env.hits are the entries found
retrieve_documents(query, filters, state, env) ==
    IF ~state.rag_system_ready
    THEN [raised |-> TRUE, status_code |-> 503, results |-> <<>>]
    ELSE IF env.outcome # "ok"
    THEN [raised |-> TRUE, status_code |-> 500, results |-> <<>>]
    ELSE [raised |-> FALSE, status_code |-> 200,
          results |-> [i \in 1..Len(SelectSeq(env.hits, LAMBDA d : Included(d, filters)))
                       |-> ResultOfEntry(SelectSeq(env.hits, LAMBDA d : Included(d, filters))[i])]]

\* ref_key of prepare_sources
ResultKey(res) == res.metadata.source \o <<":">> \o res.metadata.reference

RECURSIVE SourcesFrom(_, _, _)
\* the loop of prepare_sources with its seen_refs set
SourcesFrom(results, i, seen_refs) ==
    IF i > Len(results) THEN <<>>
    ELSE IF ResultKey(results[i]) \in seen_refs
         THEN SourcesFrom(results, i + 1, seen_refs)
         ELSE <<[source_type |-> results[i].metadata.source,
                 reference |-> results[i].metadata.reference,
                 content |-> results[i].content]>>
              \o SourcesFrom(results, i + 1, seen_refs \cup {ResultKey(results[i])})

prepare_sources(results) ==
    IF results = <<>> THEN <<>> ELSE SourcesFrom(results, 1, {})

\* format_context_for_llm: every result is rendered, duplicates included
format_context_for_llm(results) ==
    IF results = <<>> THEN NoInfo
    ELSE Join([i \in 1..Len(results) |->
                 FormatEntry([page_content |-> results[i].content,
                              metadata |-> results[i].metadata])], ParaSep)

NoResultsAnswer ==
    <<"I couldn't find specific information relevant to your question in the available documents. You could try rephrasing.">>
ErrorPrefix == <<"Error: ">>
NoKeyAnswer ==
    ErrorPrefix \o <<"OpenAI API key not found. Cannot generate answer.", " Please set your API key.">>
GenerationErrorAnswer ==
    ErrorPrefix \o <<"Error generating answer with LLM: ",
                     "Both OpenAI direct and LangChain approaches failed: ">>
CreateErrorAnswer == ErrorPrefix \o <<"Error generating answer with LLM: ">>

\* what generate_answer_with_openai hands back: the model's text, its own
\* error text (it catches every exception of the call), or no text at all
DirectAnswer == <<"d","i","r","e","c","t">>
DirectErrorText == <<"I encountered an error when generating the answer: ">>
DirectOutcomes ==
    { [raised |-> TRUE, value |-> NoneText],
      [raised |-> FALSE, value |-> DirectAnswer],
      [raised |-> FALSE, value |-> DirectErrorText],
      [raised |-> FALSE, value |-> <<>>],
      [raised |-> FALSE, value |-> NoneText] }

\* values a chain run can return
Message(content) == [kind |-> "message", content |-> content, items |-> <<>>]
OtherText == <<"o","t","h","e","r">>
ChainValues ==
    { [kind |-> "str", content |-> Answer, items |-> <<>>],
      [kind |-> "dict", content |-> Answer, items |-> <<>>],
      [kind |-> "dict", content |-> NoneText, items |-> <<>>],
      \* {"generations": [[<generation with .text>]]}: items holds the generations
      [kind |-> "dict", content |-> NoneText, items |-> <<Message(OtherText)>>],
      Message(Answer),
      Message(NoneText),
      [kind |-> "list", content |-> NoneText, items |-> <<>>],
      [kind |-> "list", content |-> NoneText, items |-> <<Message(Answer), Message(OtherText)>>],
      [kind |-> "list", content |-> NoneText,
       items |-> <<[kind |-> "str", content |-> Answer, items |-> <<>>]>>],
      [kind |-> "int", content |-> NoneText, items |-> <<>>] }

\* no value: the run raised
NoValue == [kind |-> "none", content |-> NoneText, items |-> <<>>]

ChainOutcomes ==
    {[raised |-> TRUE, value |-> NoValue]}
        \cup {[raised |-> FALSE, value |-> v] : v \in ChainValues}

\* str(x) of a value that is not a string
PyStr(v) == <<"str(", v.kind, ")">>

\* the isinstance / hasattr cascade applied to langchain_answer; for a dict
\* the "content" key is absent when content is None
NormalizeAnswer(v) ==
    IF v.kind = "dict"
        THEN (IF v.content # NoneText THEN v.content ELSE PyStr(v))
    ELSE IF v.kind = "message" THEN v.content
    ELSE IF v.kind = "list" /\ v.items # <<>> /\ v.items[1].kind = "message"
        THEN v.items[1].content
    ELSE IF v.kind # "str" THEN PyStr(v)
    ELSE v.content

\* bool(x) for a str or None
TruthyText(x) == x # NoneText /\ x # <<>>

\* the generation block of ask_question: create_answer_generator, the direct
\* call, then the chain when the direct call left no answer
GenerateTwoTier(context, question, env) ==
    IF env.create = "raise"
    THEN [raised |-> TRUE, answer |-> NoneText, message |-> CreateErrorAnswer,
          created |-> FALSE, direct_calls |-> 0, chain_calls |-> 0]
    ELSE LET answer1 == IF ~env.direct.raised /\ TruthyText(env.direct.value)
                        THEN env.direct.value ELSE NoneText
         IN  IF TruthyText(answer1)
             THEN [raised |-> FALSE, answer |-> answer1, message |-> <<>>,
                   created |-> TRUE, direct_calls |-> 1, chain_calls |-> 0]
             ELSE IF env.chain.raised
             THEN [raised |-> TRUE, answer |-> NoneText,
                   message |-> GenerationErrorAnswer,
                   created |-> TRUE, direct_calls |-> 1, chain_calls |-> 1]
             ELSE [raised |-> FALSE, answer |-> NormalizeAnswer(env.chain.value),
                   message |-> <<>>,
                   created |-> TRUE, direct_calls |-> 1, chain_calls |-> 1]

\* POST /api/ask
ask_question(request, state, env) ==
    IF ~state.rag_system_ready /\ ~FALLBACK_MODE
    THEN HTTPException(503)
    ELSE
    LET filters == RestFilters(request)
        retrieved == retrieve_documents(request.question, filters, state, env.retrieval)
        results == retrieved.results
        context == format_context_for_llm(results)
        sources == prepare_sources(results)
        gen == GenerateTwoTier(context, request.question, env)
    IN  IF retrieved.raised THEN HTTPException(retrieved.status_code)
        ELSE IF results = <<>>
        THEN AnswerResponse(NoResultsAnswer, <<>>, filters, FALSE, 0, 0)
        ELSE IF ~env.api_key
        THEN AnswerResponse(NoKeyAnswer, sources, filters, FALSE, 0, 0)
        ELSE IF gen.raised
        THEN AnswerResponse(gen.message, sources, filters,
                            gen.created, gen.direct_calls, gen.chain_calls)
        ELSE IF gen.answer = NoneText
        \* AnswerResponse(answer=None) fails validation; the outer handler
        \* turns that into HTTPException(500)
        THEN [HTTPException(500) EXCEPT !.created = gen.created,
                                        !.direct_calls = gen.direct_calls,
                                        !.chain_calls = gen.chain_calls]
        ELSE AnswerResponse(gen.answer, sources, filters,
                            gen.created, gen.direct_calls, gen.chain_calls)

QuestionRequest ==
    [question : {TheQuery}, surah_filter : {NoneVal, 0, 1}, verse_filter : {NoneVal, 1}]

\* what the embedding model and the index do during one request
RestRetrievalEnvs ==
    {[outcome |-> o, hits |-> <<>>] : o \in {"embed_raise", "search_raise"}}
        \cup {[outcome |-> "ok", hits |-> h] : h \in CandLists}

\* the environment of the steps a request actually reaches
RestEnvs(state, request) ==
    LET none == [raised |-> FALSE, value |-> NoneText]
        quiet(r) == [retrieval |-> r, api_key |-> FALSE, create |-> "ok",
                     direct |-> none, chain |-> [raised |-> FALSE, value |-> NoValue]]
    IN  IF ~state.rag_system_ready THEN {quiet([outcome |-> "ok", hits |-> <<>>])}
        ELSE UNION {
            IF r.outcome # "ok" \/ r.hits = <<>> THEN {quiet(r)}
            ELSE {quiet(r)}
                 \cup {[quiet(r) EXCEPT !.api_key = TRUE, !.create = "raise"]}
                 \cup UNION {
                        IF ~d.raised /\ TruthyText(d.value)
                        THEN {[quiet(r) EXCEPT !.api_key = TRUE, !.direct = d]}
                        ELSE {[quiet(r) EXCEPT !.api_key = TRUE, !.direct = d, !.chain = c]
                              : c \in ChainOutcomes}
                        : d \in DirectOutcomes }
            : r \in RestRetrievalEnvs }

-----------------------------------------------------------------------------
(* src/llm_client.py: the OpenAI client singleton *)

\* the class attributes as the module defines them: _instance = None, _client = None
NoClient == [instance |-> FALSE, client |-> "None"]

\* OpenAIClient(): __new__ on the class state cls.  key: load_api_key() found
\* a key; ctor: openai.OpenAI(...) returned ("ok"), raised AttributeError or
\* TypeError ("legacy"), or raised something else ("raise")
OpenAIClient(cls, key, ctor) ==
    IF ~cls.instance
    THEN (IF ~key
          THEN [cls |-> [cls EXCEPT !.instance = TRUE], raised |-> TRUE, client |-> "None"]
          ELSE IF ctor = "raise"
          THEN [cls |-> [cls EXCEPT !.instance = TRUE], raised |-> TRUE, client |-> "None"]
          ELSE LET made == IF ctor = "ok" THEN "OpenAI" ELSE "openai"
               IN  [cls |-> [instance |-> TRUE, client |-> made],
                    raised |-> FALSE, client |-> made])
    ELSE [cls |-> cls, raised |-> FALSE, client |-> cls.client]

\* UnifiedLLMChat.__init__: raises without a key, when OpenAIClient() raises,
\* and when the client it gets is falsy
UnifiedLLMChat(cls, model_name, key, ctor) ==
    LET made == OpenAIClient(cls, key, ctor)
    IN  IF ~key
        THEN [cls |-> cls, raised |-> TRUE, client |-> "None", model_name |-> model_name]
        ELSE IF made.raised \/ made.client = "None"
        THEN [cls |-> made.cls, raised |-> TRUE, client |-> "None", model_name |-> model_name]
        ELSE [cls |-> made.cls, raised |-> FALSE, client |-> made.client,
              model_name |-> model_name]

-----------------------------------------------------------------------------
(* Concurrent process calls on one agent instance.  A process call runs on   *)
(* the event loop up to its `await loop.run_in_executor(None, lambda: ...)`, *)
(* its lambda runs on a worker thread, and the call resumes on the event     *)
(* loop when the worker is done.                                             *)

\* the tasks that call process concurrently
Slots == {1, 2}

IdleCall == [pc |-> "idle"]

NoCalls == [c \in Slots |-> IdleCall]

\* a retriever reference a worker has not loaded, or shares with the agent
NoObject == [kind |-> "none", search_kwargs |-> [k |-> 0, filter |-> NoFilter]]

\* the order in which the index ranks its chunks for the query
IndexRanking ==
    << [page_content |-> <<"a">>,
        metadata |-> [source |-> QuranSrc, surah_num |-> 1, verse_num |-> 1,
                      reference |-> Ref11]],
       [page_content |-> <<"d">>,
        metadata |-> [source |-> TafsirX, surah_num |-> 1, verse_num |-> 1,
                      reference |-> Ref11]],
       [page_content |-> <<"c">>,
        metadata |-> [source |-> QuranSrc, surah_num |-> 2, verse_num |-> 1,
                      reference |-> Ref21]],
       [page_content |-> <<"b">>,
        metadata |-> [source |-> QuranSrc, surah_num |-> 1, verse_num |-> 2,
                      reference |-> Ref12]] >>

\* vector store similarity search: the kw.k best chunks that pass kw.filter
IndexSearch(kw) ==
    LET matching == SelectSeq(IndexRanking, LAMBDA d : MatchesFilter(d.metadata, kw.filter))
    IN  SubSeq(matching, 1, IF Len(matching) < kw.k THEN Len(matching) ELSE kw.k)

\* the requests the concurrent tasks send to the Retriever Agent
ConcurrentRetrieverRequests ==
    {r \in RetrieverAgentRequest :
        /\ r.parameters = NoParams /\ r.verse_filter = NoneVal
        /\ Cardinality({f \in {"k", "c", "s"} :
                           \/ f = "k" /\ r.k # 5
                           \/ f = "c" /\ ~r.use_compression
                           \/ f = "s" /\ r.surah_filter # NoneVal}) <= 1}

\* the requests the concurrent tasks send to the Generator Agent
ConcurrentGeneratorRequests ==
    {r \in GeneratorAgentRequest :
        /\ r.context = NoInfo /\ r.model_name = "gpt-3.5-turbo"
        /\ r.parameters.has \subseteq {"model_name"}}

\* the filter dict process builds for a request
RequestFilter(request) ==
    FilterCriteria(RetrieverParam(request, "surah_filter"),
                   RetrieverParam(request, "verse_filter"))

\* RetrieverAgent.process run with no other call in flight, on an agent whose
\* retriever is r, against the same index
SoloRetrieve(r, request) ==
    LET used == RetrieverUsed(r, request, TRUE)
        fc == RequestFilter(request)
        kw == IF HasSearchKwargs(used) /\ fc # NoFilter
              THEN [used.search_kwargs EXCEPT !.filter = fc]
              ELSE used.search_kwargs
        env == [build |-> TRUE, search |-> "ok", cands |-> IndexSearch(kw),
                compress |-> "ok", drop |-> {}, shrink |-> FALSE]
    IN  RetrieverAgentProcess(r, request, env)

\* GeneratorAgent.process run with no other call in flight
SoloGenerate(g, request) ==
    GeneratorAgentProcess(g, request, [init |-> TRUE, run |-> "ok"])

\* the retriever object the worker of call c holds
HeldRetriever(c) == IF calls[c].ref = "own" THEN calls[c].obj ELSE retriever

\* no call on another agent is in flight: the tasks of one run share one agent
OnlyAgentInFlight(agent) ==
    \A d \in Slots : calls[d].pc # "idle" => calls[d].agent = agent

\* some other call on the same agent is in flight
OtherInFlight(c, agent) ==
    \E d \in Slots \ {c} : calls[d].pc # "idle" /\ calls[d].agent = agent

\* the agent state when the overlapping calls started
QuietState(c, agent, now) ==
    IF OtherInFlight(c, agent)
    THEN calls[CHOOSE d \in Slots \ {c} : calls[d].pc # "idle" /\ calls[d].agent = agent].quiet
    ELSE now

-----------------------------------------------------------------------------
(* State machine *)

Idle == [op |-> "none"]

Init ==
    /\ retriever \in {InitialRetriever(b) : b \in BOOLEAN}
    /\ generator = InitialGenerator
    /\ available_tafsirs \in {load_available_tafsirs(l) : l \in TafsirListings}
    /\ last = Idle
    /\ calls = NoCalls
    /\ rag_system = NotStarted
    /\ client_class = NoClient

\* one RetrieverAgent.process call, from the request to the returned response
RetrieverProcess ==
    /\ last = Idle
    /\ calls = NoCalls
    /\ \E request \in RetrieverAgentRequest :
       \E build \in (IF Rebuilds(request) /\ RetrieverParam(request, "use_compression")
                     THEN BOOLEAN ELSE {TRUE}) :
       LET used == RetrieverUsed(retriever, request, build)
           fc == FilterCriteria(RetrieverParam(request, "surah_filter"),
                                RetrieverParam(request, "verse_filter"))
       IN  \E env \in RetrievalEnvs(used, fc, build) :
           LET out == RetrieverAgentProcess(retriever, request, env)
           IN  /\ retriever' = out.retriever
               /\ last' = [op |-> "retrieve", request |-> request, env |-> env,
                           before |-> retriever, out |-> out]
    /\ UNCHANGED <<generator, available_tafsirs, calls, rag_system, client_class>>

\* one GeneratorAgent.process call
GeneratorProcess ==
    /\ last = Idle
    /\ calls = NoCalls
    /\ \E request \in GeneratorAgentRequest :
       \E env \in GenerationEnvs(ConfigChanged(generator, request)) :
       LET out == GeneratorAgentProcess(generator, request, env)
       IN  /\ generator' = out.generator
           /\ last' = [op |-> "generate", request |-> request, env |-> env,
                       before |-> generator, out |-> out]
    /\ UNCHANGED <<retriever, available_tafsirs, calls, rag_system, client_class>>

\* one A2AOrchestrator.process_query call
ProcessQuery ==
    /\ last = Idle
    /\ calls = NoCalls
    /\ \E request \in QuranQueryRequest :
       \E file \in (IF WantsDirectTafsir(request) THEN TafsirFiles ELSE {"has"}) :
       \E renv \in RetrievalEnvs(retriever,
                                 FilterCriteria(request.surah_filter, request.verse_filter),
                                 TRUE) :
       \E genv \in GenerationEnvs(request.model_name # generator.model_name) :
       LET env == [file |-> file, retrieval |-> renv, generation |-> genv]
           out == A2AProcessQuery(retriever, generator, available_tafsirs, request, env)
       IN  /\ retriever' = out.retriever
           /\ generator' = out.generator
           /\ last' = [op |-> "process_query", request |-> request, env |-> env,
                       out |-> out]
    /\ UNCHANGED <<available_tafsirs, calls, rag_system, client_class>>

\* one BaseMCPServer.execute_tool call
ExecuteTool ==
    /\ last = Idle
    /\ \E tool_call \in ToolCall :
       \E file \in (IF tool_call.name = "lookup_tafsir" THEN TafsirFiles ELSE {"has"}) :
       \E behaviour \in (IF tool_call.name \in {"custom_sync", "custom_async"}
                         THEN {"result", "error", "raise"} ELSE {"result"}) :
       LET env == [file |-> file, behaviour |-> behaviour]
       IN  last' = [op |-> "execute_tool", tool_call |-> tool_call, env |-> env,
                    out |-> execute_tool(tool_call, available_tafsirs, env)]
    /\ UNCHANGED <<retriever, generator, available_tafsirs, calls, rag_system, client_class>>

\* one TafsirToolAgent.process call
TafsirProcess ==
    /\ last = Idle
    /\ \E request \in TafsirLookupRequest :
       \E file \in TafsirFiles :
       last' = [op |-> "tafsir", request |-> request, file |-> file,
                out |-> TafsirToolAgentProcess(available_tafsirs, request, file)]
    /\ UNCHANGED <<retriever, generator, available_tafsirs, calls, rag_system, client_class>>

\* one TranslationToolAgent.process call
TranslationProcess ==
    /\ last = Idle
    /\ \E request \in TranslationRequest :
       last' = [op |-> "translate", request |-> request,
                out |-> TranslationToolAgentProcess(request)]
    /\ UNCHANGED <<retriever, generator, available_tafsirs, calls, rag_system, client_class>>

\* RetrieverAgent(...): FAISS.load_local raises when the index is missing and
\* __init__ re-raises it as RuntimeError; otherwise the default retriever is built
ConstructRetrieverAgent ==
    /\ last = Idle
    /\ calls = NoCalls
    /\ \E index \in BOOLEAN, buildOK \in BOOLEAN :
       /\ retriever' = IF index THEN InitialRetriever(buildOK) ELSE retriever
       /\ last' = [op |-> "construct", agent |-> "retriever", resource |-> index,
                   out |-> [raised |-> ~index]]
    /\ UNCHANGED <<generator, available_tafsirs, calls, rag_system, client_class>>

\* TafsirToolAgent(...): _load_available_tafsirs catches what os.listdir raises
ConstructTafsirToolAgent ==
    /\ last = Idle
    /\ \E listing \in TafsirListings :
       /\ available_tafsirs' = load_available_tafsirs(listing)
       /\ last' = [op |-> "construct", agent |-> "tafsir", resource |-> listing.readable,
                   out |-> [raised |-> FALSE]]
    /\ UNCHANGED <<retriever, generator, calls, rag_system, client_class>>

\* TranslationToolAgent(...): _load_quran_data re-raises a failed open or
\* json.load as RuntimeError
ConstructTranslationToolAgent ==
    /\ last = Idle
    /\ \E file \in BOOLEAN :
       last' = [op |-> "construct", agent |-> "translation", resource |-> file,
                out |-> [raised |-> ~file]]
    /\ UNCHANGED <<retriever, generator, available_tafsirs, calls, rag_system, client_class>>

\* RetrieverAgent.process of task c up to its await: the parameters are read,
\* self.retriever is replaced when k != 5 or not use_compression, and the lambda
\* is handed to the worker pool
BeginRetrieve(c) ==
    /\ last = Idle
    /\ calls[c].pc = "idle"
    /\ OnlyAgentInFlight("retriever")
    /\ \E request \in ConcurrentRetrieverRequests :
       LET rebuild == Rebuilds(request)
           started == [pc |-> "submitted", agent |-> "retriever", request |-> request,
                       quiet |-> QuietState(c, "retriever", retriever),
                       ref |-> "none", obj |-> NoObject,
                       original_kwargs |-> NoObject.search_kwargs,
                       documents |-> <<>>]
       IN  /\ retriever' = IF rebuild
                           THEN create_enhanced_retriever(RetrieverParam(request, "k"),
                                    RetrieverParam(request, "use_compression"), TRUE)
                           ELSE retriever
           /\ calls' = [d \in Slots |->
                          IF d = c THEN started
                          ELSE IF rebuild /\ calls[d].pc # "idle"
                                  /\ calls[d].agent = "retriever" /\ calls[d].ref = "self"
                          \* the worker of d keeps the object self.retriever referred to
                          THEN [calls[d] EXCEPT !.ref = "own", !.obj = retriever]
                          ELSE calls[d]]
    /\ UNCHANGED <<generator, available_tafsirs, last, rag_system, client_class>>

\* the worker runs the lambda: self.retriever is read now
WorkerLoadRetriever(c) ==
    /\ last = Idle
    /\ calls[c].pc = "submitted"
    /\ calls[c].agent = "retriever"
    /\ calls' = [calls EXCEPT ![c].pc = "loaded", ![c].ref = "self"]
    /\ UNCHANGED <<retriever, generator, available_tafsirs, last, rag_system, client_class>>

\* retrieve_relevant_context: original_kwargs = retriever.search_kwargs.copy()
\* and, with a filter, retriever.search_kwargs.update(search_kwargs)
WorkerPrepare(c) ==
    /\ last = Idle
    /\ calls[c].pc = "loaded"
    /\ LET o == HeldRetriever(c)
           fc == RequestFilter(calls[c].request)
           writes == HasSearchKwargs(o) /\ fc # NoFilter
           o1 == IF writes THEN [o EXCEPT !.search_kwargs.filter = fc] ELSE o
           c1 == [calls[c] EXCEPT !.pc = "prepared",
                                  !.original_kwargs = IF HasSearchKwargs(o)
                                                      THEN o.search_kwargs
                                                      ELSE NoObject.search_kwargs]
       IN  IF calls[c].ref = "own"
           THEN /\ calls' = [calls EXCEPT ![c] = [c1 EXCEPT !.obj = o1]]
                /\ UNCHANGED retriever
           ELSE /\ calls' = [calls EXCEPT ![c] = c1]
                /\ retriever' = o1
    /\ UNCHANGED <<generator, available_tafsirs, last, rag_system, client_class>>

\* retrieve_relevant_context: documents = retriever.get_relevant_documents(query),
\* then doc.metadata['query'] = query
WorkerSearch(c) ==
    /\ last = Idle
    /\ calls[c].pc = "prepared"
    /\ LET o == HeldRetriever(c)
           found == IndexSearch(o.search_kwargs)
           documents == IF o.kind = "compression" THEN Compress(found, {}, FALSE, 1)
                        ELSE found
       IN  calls' = [calls EXCEPT ![c].pc = "searched",
                                  ![c].documents = TagQuery(documents, calls[c].request.query)]
    /\ UNCHANGED <<retriever, generator, available_tafsirs, last, rag_system, client_class>>

\* retrieve_relevant_context: retriever.search_kwargs = original_kwargs, return
WorkerRestore(c) ==
    /\ last = Idle
    /\ calls[c].pc = "searched"
    /\ LET o == HeldRetriever(c)
           fc == RequestFilter(calls[c].request)
           writes == HasSearchKwargs(o) /\ fc # NoFilter
           o1 == IF writes THEN [o EXCEPT !.search_kwargs = calls[c].original_kwargs] ELSE o
           c1 == [calls[c] EXCEPT !.pc = "returned"]
       IN  IF calls[c].ref = "own"
           THEN /\ calls' = [calls EXCEPT ![c] = [c1 EXCEPT !.obj = o1]]
                /\ UNCHANGED retriever
           ELSE /\ calls' = [calls EXCEPT ![c] = c1]
                /\ retriever' = o1
    /\ UNCHANGED <<generator, available_tafsirs, last, rag_system, client_class>>

\* RetrieverAgent.process of task c after its await: the response is built
FinishRetrieve(c) ==
    /\ last = Idle
    /\ calls[c].pc = "returned"
    /\ LET documents == calls[c].documents
           formatted_context == format_context_from_docs(documents)
           response == [content |-> formatted_context,
                        metadata |-> [query |-> calls[c].request.query,
                                      filter_criteria |-> RequestFilter(calls[c].request)],
                        documents |-> SerializableDocs(documents),
                        formatted_context |-> formatted_context]
       IN  last' = [op |-> "concurrent_retrieve", task |-> c,
                    request |-> calls[c].request,
                    quiet |-> calls[c].quiet,
                    overlapped |-> OtherInFlight(c, "retriever"),
                    out |-> [response |-> response],
                    solo |-> SoloRetrieve(calls[c].quiet, calls[c].request)]
    /\ calls' = [calls EXCEPT ![c] = IdleCall]
    /\ UNCHANGED <<retriever, generator, available_tafsirs, rag_system, client_class>>

\* GeneratorAgent.process of task c up to its await: the model parameters are
\* read, and when they differ from the cached ones the configuration and
\* self.generator are replaced
BeginGenerate(c) ==
    /\ last = Idle
    /\ calls[c].pc = "idle"
    /\ OnlyAgentInFlight("generator")
    /\ \E request \in ConcurrentGeneratorRequests :
       LET solo == SoloGenerate(generator, request)
       IN  /\ generator' = solo.generator
           /\ calls' = [calls EXCEPT ![c] =
                          [pc |-> "submitted", agent |-> "generator", request |-> request,
                           quiet |-> QuietState(c, "generator", generator),
                           context |-> solo.context,
                           used_chain |-> InitialGenerator.chain]]
    /\ UNCHANGED <<retriever, available_tafsirs, last, rag_system, client_class>>

\* the worker runs the lambda: self.generator is read now and the chain runs
WorkerGenerate(c) ==
    /\ last = Idle
    /\ calls[c].pc = "submitted"
    /\ calls[c].agent = "generator"
    /\ calls' = [calls EXCEPT ![c].pc = "ran", ![c].used_chain = generator.chain]
    /\ UNCHANGED <<retriever, generator, available_tafsirs, last, rag_system, client_class>>

\* GeneratorAgent.process of task c after its await: sources are parsed and the
\* response is built
FinishGenerate(c) ==
    /\ last = Idle
    /\ calls[c].pc = "ran"
    /\ LET gen == generate_answer(calls[c].used_chain, calls[c].context,
                                  calls[c].request.query, "ok")
       IN  last' = [op |-> "concurrent_generate", task |-> c,
                    request |-> calls[c].request,
                    quiet |-> calls[c].quiet,
                    overlapped |-> OtherInFlight(c, "generator"),
                    out |-> [used_chain |-> calls[c].used_chain,
                             response |-> [answer |-> gen.answer,
                                           sources |-> ParseSources(calls[c].context)]],
                    solo |-> SoloGenerate(calls[c].quiet, calls[c].request)]
    /\ calls' = [calls EXCEPT ![c] = IdleCall]
    /\ UNCHANGED <<retriever, generator, available_tafsirs, rag_system, client_class>>

\* the caller has consumed the response and goes on to its next request
\* the application starts: startup_event runs once
StartupEvent ==
    /\ last = Idle
    /\ rag_system = NotStarted
    /\ \E loaded \in BOOLEAN : rag_system' = startup_event(rag_system, loaded)
    /\ UNCHANGED <<retriever, generator, available_tafsirs, last, calls, client_class>>

\* one POST /api/ask request, from the request to the HTTP response
AskQuestion ==
    /\ last = Idle
    /\ \E request \in QuestionRequest :
         \E env \in RestEnvs(rag_system, request) :
            last' = [op |-> "ask", request |-> request, state |-> rag_system,
                     env |-> env, out |-> ask_question(request, rag_system, env)]
    /\ UNCHANGED <<retriever, generator, available_tafsirs, calls, rag_system, client_class>>

\* one OpenAIClient() construction
ConstructOpenAIClient ==
    /\ last = Idle
    /\ \E key \in BOOLEAN, ctor \in {"ok", "legacy", "raise"} :
         LET out == OpenAIClient(client_class, key, ctor)
         IN  /\ client_class' = out.cls
             /\ last' = [op |-> "openai_client", key |-> key, ctor |-> ctor,
                         before |-> client_class, out |-> out]
    /\ UNCHANGED <<retriever, generator, available_tafsirs, calls, rag_system>>

\* one UnifiedLLMChat(model_name=...) construction
ConstructUnifiedLLMChat ==
    /\ last = Idle
    /\ \E model_name \in Models, key \in BOOLEAN, ctor \in {"ok", "legacy", "raise"} :
         LET out == UnifiedLLMChat(client_class, model_name, key, ctor)
         IN  /\ client_class' = out.cls
             /\ last' = [op |-> "unified_chat", key |-> key, ctor |-> ctor,
                         before |-> client_class, out |-> out]
    /\ UNCHANGED <<retriever, generator, available_tafsirs, calls, rag_system>>

NextRequest ==
    /\ last # Idle
    /\ last' = Idle
    /\ UNCHANGED <<retriever, generator, available_tafsirs, calls, rag_system, client_class>>

Next ==
    \/ RetrieverProcess
    \/ GeneratorProcess
    \/ ProcessQuery
    \/ ExecuteTool
    \/ TafsirProcess
    \/ TranslationProcess
    \/ ConstructRetrieverAgent
    \/ ConstructTafsirToolAgent
    \/ ConstructTranslationToolAgent
    \/ \E c \in Slots : BeginRetrieve(c)
    \/ \E c \in Slots : WorkerLoadRetriever(c)
    \/ \E c \in Slots : WorkerPrepare(c)
    \/ \E c \in Slots : WorkerSearch(c)
    \/ \E c \in Slots : WorkerRestore(c)
    \/ \E c \in Slots : FinishRetrieve(c)
    \/ \E c \in Slots : BeginGenerate(c)
    \/ \E c \in Slots : WorkerGenerate(c)
    \/ \E c \in Slots : FinishGenerate(c)
    \/ StartupEvent
    \/ AskQuestion
    \/ ConstructOpenAIClient
    \/ ConstructUnifiedLLMChat
    \/ NextRequest

Spec == Init /\ [][Next]_vars

\* a client of the Retriever Agent alone
NextRetriever == RetrieverProcess \/ NextRequest
SpecRetriever == Init /\ [][NextRetriever]_vars

\* a client of the Generator Agent alone
NextGenerator == GeneratorProcess \/ NextRequest
SpecGenerator == Init /\ [][NextGenerator]_vars

\* a client of the orchestrator
NextOrchestrator == ProcessQuery \/ NextRequest
SpecOrchestrator == Init /\ [][NextOrchestrator]_vars

\* a client of a tool server
NextServer == ExecuteTool \/ NextRequest
SpecServer == Init /\ [][NextServer]_vars

\* a client of the Tafsir Lookup agent alone
NextTafsir == TafsirProcess \/ NextRequest
SpecTafsir == Init /\ [][NextTafsir]_vars

\* a client of the Translation agent alone
NextTranslation == TranslationProcess \/ NextRequest
SpecTranslation == Init /\ [][NextTranslation]_vars

\* a program that constructs agents and calls the Tafsir Lookup agent
NextConstruction ==
    \/ ConstructRetrieverAgent
    \/ ConstructTafsirToolAgent
    \/ ConstructTranslationToolAgent
    \/ TafsirProcess
    \/ NextRequest
SpecConstruction == Init /\ [][NextConstruction]_vars

\* two tasks that call process on the same Retriever and Generator agents
NextConcurrent ==
    \/ \E c \in Slots : BeginRetrieve(c)
    \/ \E c \in Slots : WorkerLoadRetriever(c)
    \/ \E c \in Slots : WorkerPrepare(c)
    \/ \E c \in Slots : WorkerSearch(c)
    \/ \E c \in Slots : WorkerRestore(c)
    \/ \E c \in Slots : FinishRetrieve(c)
    \/ \E c \in Slots : BeginGenerate(c)
    \/ \E c \in Slots : WorkerGenerate(c)
    \/ \E c \in Slots : FinishGenerate(c)
    \/ NextRequest
SpecConcurrent == Init /\ [][NextConcurrent]_vars

\* a client of the REST application alone
NextRest == StartupEvent \/ AskQuestion \/ NextRequest
SpecRest == Init /\ [][NextRest]_vars

\* the constructions of the OpenAI client and of the chat models holding it
NextClient == ConstructOpenAIClient \/ ConstructUnifiedLLMChat \/ NextRequest
SpecClient == Init /\ [][NextClient]_vars

-----------------------------------------------------------------------------
(* Properties *)

Documents == last.out.response.documents

\* the (source, reference) pair of a returned document
PairOf(doc) == <<doc.metadata.source, doc.metadata.reference>>

RECURSIVE DedupFrom(_, _, _)
\* first occurrence of every (source, reference) pair, order kept
DedupFrom(docs, i, seen) ==
    IF i > Len(docs) THEN <<>>
    ELSE IF PairOf(docs[i]) \in seen THEN DedupFrom(docs, i + 1, seen)
    ELSE <<docs[i]>> \o DedupFrom(docs, i + 1, seen \cup {PairOf(docs[i])})

Dedup(docs) == DedupFrom(docs, 1, {})

\* C1: no two elements of the `documents` list of a RetrieverAgent.process
\* response share the same (metadata.source, metadata.reference) pair
C1_DocumentsHaveUniquePairs ==
    last.op = "retrieve" =>
        \A i, j \in 1..Len(Documents) :
            i # j => PairOf(Documents[i]) # PairOf(Documents[j])

\* C2: the `documents` list of a RetrieverAgent.process response has at most k
\* elements, k being the effective result size of the call
C2_AtMostKDocuments ==
    last.op = "retrieve" => Len(Documents) <= last.out.k

\* C3: with a surah filter S every returned document has surah_num = S, and
\* with a verse filter V as well every returned document also has verse_num = V
C3_FilterRespected ==
    (last.op = "retrieve" /\ last.out.filter_criteria.surah # NoneVal) =>
        \A i \in 1..Len(Documents) :
            /\ Documents[i].metadata.surah_num = last.out.filter_criteria.surah
            /\ (last.out.filter_criteria.verse # NoneVal =>
                    Documents[i].metadata.verse_num = last.out.filter_criteria.verse)

\* the compression step of the call failed: the compressor could not be built,
\* or the extractor raised while the retrieval ran through it
CompressionFailed ==
    /\ last.out.use_compression
    /\ last.env.search = "ok"
    /\ \/ (Rebuilds(last.request) /\ ~last.env.build)
       \/ (last.out.used.kind = "compression" /\ last.env.cands # <<>>
           /\ last.env.compress = "raise")

\* what the same retrieval gives with use_compression = false: the base
\* retriever's search over the same index ranking, filter applied by the index
UncompressedDocuments ==
    LET kw == [k |-> 3 * last.out.k, filter |-> last.out.filter_criteria]
        matching == SelectSeq(last.env.cands, LAMBDA d : MatchesFilter(d.metadata, kw.filter))
    IN  SubSeq(matching, 1, IF Len(matching) < kw.k THEN Len(matching) ELSE kw.k)

\* C4: when the compression step fails, the number of deduplicated results is
\* not lower than what the uncompressed retrieval produces
C4_CompressionFailsOpen ==
    (last.op = "retrieve" /\ CompressionFailed) =>
        Len(Dedup(Documents)) >= Len(Dedup(UncompressedDocuments))

\* C5: when the embedding call or the index search fails, RetrieverAgent.process
\* raises, and process_query fails without invoking the Generator Agent
C5_RetrievalFailurePropagates ==
    (last.op = "process_query" /\ last.env.retrieval.search = "raise") =>
        /\ last.out.retrieval.raised
        /\ last.out.raised
        /\ ~last.out.generator_invoked

\* C6: a raising generation never makes GeneratorAgent.process raise: the
\* response has a non-empty answer and the sources parsed from the context
C6_GenerationFailureAbsorbed ==
    (last.op = "generate" /\ last.env.run = "raise" /\ ~last.out.init_failed) =>
        /\ ~last.out.raised
        /\ last.out.response.answer # <<>>
        /\ last.out.response.sources = ParseSources(last.out.context)

\* C7: process_query raises only when the retrieval step failed; a failed
\* tafsir lookup or a failed generation leaves a normal response
C7_OnlyRetrievalFailurePropagates ==
    (last.op = "process_query" /\ last.out.raised /\ ~last.out.generation.init_failed) =>
        last.out.retrieval.retrieval_error

\* the label under which the formatter renders a source
LabelOf(source) ==
    IF source = QuranSrc THEN <<"Q","u","r","a","n">>
    ELSE IF StartsWith(source, TafsirPrefix)
    THEN <<"T","a","f","s","i","r",SP>> \o Remove(source, TafsirPrefix)
    ELSE source

\* a parsed entry stands for a document: its reference and content are the
\* document's, and its source_type is the document's source or that source's label
EntryIsDoc(entry, doc) ==
    /\ entry.reference = doc.metadata.reference
    /\ entry.content = doc.page_content
    /\ entry.source_type \in {doc.metadata.source, LabelOf(doc.metadata.source)}

\* C8: the sources parsed from the formatted context of a non-empty document
\* list are the deduplicated documents, one entry each, in the same order
C8_FormatParseRoundTrip ==
    (last.op = "generate" /\ ~last.out.raised) =>
        \A d \in DocLists \ {<<>>} :
            last.out.context = FormattedOf[d] =>
                /\ Len(last.out.response.sources) = Len(Dedup(d))
                /\ \A i \in 1..Len(Dedup(d)) :
                       i <= Len(last.out.response.sources)
                       => EntryIsDoc(last.out.response.sources[i], Dedup(d)[i])

\* C9: execute_tool with a name that is not registered returns the error
\* "Tool not found: <name>", invokes no handler and raises nothing
C9_UnknownToolIsReported ==
    (last.op = "execute_tool" /\ last.tool_call.name \notin RegisteredNames) =>
        /\ ~last.out.raised
        /\ ~last.out.handler_invoked
        /\ last.out.value.has_error
        /\ ~last.out.value.has_result
        /\ last.out.value.error = <<"Tool not found: ", last.tool_call.name>>

C9_Witness ==
    /\ last.op = "execute_tool"
    /\ last.tool_call.name = "nonexistent_tool"
    /\ last.out.value.error = <<"Tool not found: ", "nonexistent_tool">>

\* C10: execute_tool never raises; what it returns has exactly one of result
\* and error; when the handler raised it is an error without a result
C10_NoExceptionCrossesBoundary ==
    last.op = "execute_tool" =>
        /\ ~last.out.raised
        /\ last.out.value.has_result # last.out.value.has_error
        /\ (last.out.handler_raised =>
                last.out.value.has_error /\ ~last.out.value.has_result)

C10_Witness ==
    /\ last.op = "execute_tool"
    /\ last.out.handler_raised
    /\ ~last.out.raised
    /\ last.out.value.has_error
    /\ \E t \in RegisteredTools : t.name = last.tool_call.name /\ ~t.coroutine

\* the bounds of a translation request: 1 <= surah <= 114, and the verse, or
\* the range verse..end_verse, within the surah
TranslationInBounds(surah, verse, end_verse) ==
    /\ 1 <= surah /\ surah <= SurahCount
    /\ IF end_verse = NoneVal
       THEN 1 <= verse /\ verse <= VerseCount(surah)
       ELSE 1 <= verse /\ verse <= end_verse /\ end_verse <= VerseCount(surah)

\* C11: TranslationToolAgent.process raises and returns no translation when
\* the reference is out of bounds, and for every reference within the bounds it
\* returns the verses start..end inclusive, each once and in order
C11_TranslationValidates ==
    last.op = "translate" =>
        LET o == last.out
            stop == IF o.end_verse = NoneVal THEN o.verse ELSE o.end_verse
        IN  IF TranslationInBounds(o.surah, o.verse, o.end_verse)
            THEN /\ ~o.raised
                 /\ Len(o.response.translated_text) = stop - o.verse + 1
                 /\ \A i \in 1..Len(o.response.translated_text) :
                        /\ o.response.translated_text[i].surah = o.surah
                        /\ o.response.translated_text[i].verse = o.verse + i - 1
                        /\ o.response.arabic_text[i] = quran_data[o.surah][o.verse + i - 1].text
            ELSE /\ o.raised
                 /\ o.response.translated_text = <<>>

\* the tafsir name a Tafsir Lookup request carries, before any default
RequestedTafsir == TafsirParam(last.request, "tafsir_name")

\* C12: a request naming a tafsir that is not registered gets a normal
\* response whose content lists every registered tafsir; process does not
\* raise and looks nothing up
C12_UnknownTafsirListsNames ==
    (last.op = "tafsir" /\ RequestedTafsir # NoName
        /\ ~InSeq(RequestedTafsir, available_tafsirs)) =>
        /\ ~last.out.raised
        /\ ~last.out.looked_up
        /\ \A i \in 1..Len(available_tafsirs) :
               InSeq(available_tafsirs[i], last.out.response.content)
        /\ last.out.response.metadata.available = available_tafsirs

C12_Witness ==
    /\ last.op = "tafsir"
    /\ RequestedTafsir = "zz"
    /\ Len(available_tafsirs) = 2
    /\ ~last.out.looked_up
    /\ InSeq("ar-y", last.out.response.content)
    /\ InSeq("en-x", last.out.response.content)

DirectTafsirSource ==
    [source_type |-> <<"t","a","f","s","i","r">>,
     reference |-> <<NumStr(last.request.surah_filter), ":",
                     NumStr(last.request.verse_filter)>>,
     content |-> last.out.response.direct_tafsir.text]

\* C14: the context the Generator Agent works on is exactly the Retriever
\* response's formatted_context; the text of a direct tafsir lookup is in the
\* direct_tafsir field and in the sources list only
C14_GeneratorContextIsFormattedContext ==
    last.op = "process_query" =>
        /\ last.out.generation.context = last.out.retrieval.response.formatted_context
        /\ last.out.generation.context =
               format_context_from_docs(
                   [i \in 1..Len(last.out.retrieval.response.documents) |->
                       [page_content |-> last.out.retrieval.response.documents[i].content,
                        metadata |-> last.out.retrieval.response.documents[i].metadata]])
        /\ (last.out.tafsir_invoked =>
                /\ last.out.response.has_direct_tafsir
                /\ last.out.response.sources[1] = DirectTafsirSource)

C14_Witness ==
    /\ last.op = "process_query"
    /\ last.out.tafsir_looked_up
    /\ last.env.file = "has"
    /\ last.out.retrieval.response.documents # <<>>
    /\ last.out.generation.context = last.out.retrieval.response.formatted_context
    /\ last.out.response.direct_tafsir.text # <<>>

\* both filters are present in a QuranQueryRequest
BothFiltersPresent ==
    last.request.surah_filter # NoneVal /\ last.request.verse_filter # NoneVal

Overridden(request, key) ==
    IF key \in request.parameters.has THEN request.parameters[key] ELSE request[key]

\* C16: in every agent the effective value of an overridable field is
\* parameters[key] when `parameters` holds the key, otherwise the request's
\* typed field, otherwise the default
C16_ParametersThenTypedField ==
    /\ (last.op = "generate" /\ ~last.out.raised) =>
           /\ last.out.context = Overridden(last.request, "context")
           /\ last.out.used_chain.model_name = Overridden(last.request, "model_name")
           /\ last.out.used_chain.temperature = Overridden(last.request, "temperature")
           /\ last.out.used_chain.max_tokens = Overridden(last.request, "max_tokens")
    /\ last.op = "retrieve" =>
           /\ last.out.k = Overridden(last.request, "k")
           /\ last.out.use_compression = Overridden(last.request, "use_compression")
           /\ last.out.filter_criteria =
                  FilterCriteria(Overridden(last.request, "surah_filter"),
                                 Overridden(last.request, "verse_filter"))
    /\ last.op = "tafsir" =>
           /\ last.out.response.surah = Overridden(last.request, "surah")
           /\ last.out.response.verse = Overridden(last.request, "verse")
    /\ last.op = "translate" =>
           /\ last.out.surah = Overridden(last.request, "surah")
           /\ last.out.verse = Overridden(last.request, "verse")
           /\ last.out.end_verse = Overridden(last.request, "end_verse")
           /\ last.out.translation =
                  (IF Overridden(last.request, "translation_name") = NoName
                   THEN default_translation
                   ELSE Overridden(last.request, "translation_name"))

\* C17: constructing an agent whose backing resource is unavailable raises
C17_ConstructionFailureRaises ==
    (last.op = "construct" /\ ~last.resource) => last.out.raised

\* C18: a process call that overlapped another call on the same agent returns
\* what it would return had it run alone: the same documents and context from
\* the Retriever Agent, an answer of the same generator chain from the
\* Generator Agent
C18_ConcurrentCallsDoNotInterfere ==
    /\ (last.op = "concurrent_retrieve" /\ last.overlapped) =>
           last.out.response = last.solo.response
    /\ (last.op = "concurrent_generate" /\ last.overlapped) =>
           /\ last.out.used_chain = last.solo.used_chain
           /\ last.out.response = last.solo.response

\* the index entries a REST request is left with after its surah post-filter
Evidence ==
    SelectSeq(last.env.retrieval.hits,
              LAMBDA d : ~ (/\ Truthy(last.request.surah_filter)
                            /\ "surah_number" \in DOMAIN d.metadata
                            /\ d.metadata["surah_number"] # last.request.surah_filter))

\* the request got past retrieval with evidence and an API key
ReachedGeneration ==
    /\ last.state.rag_system_ready
    /\ last.env.retrieval.outcome = "ok"
    /\ Evidence # <<>>
    /\ last.env.api_key

\* generation failed: the generator could not be created, the direct call
\* came back with its own error text, or neither tier produced an answer
GenerationFailed ==
    /\ ReachedGeneration
    /\ \/ last.env.create = "raise"
       \/ last.env.direct = [raised |-> FALSE, value |-> DirectErrorText]
       \/ /\ (last.env.direct.raised \/ last.env.direct.value \in {NoneText, <<>>})
          /\ last.env.chain.raised

\* the evidence as response sources: first occurrence per pair, order kept
EvidenceSources ==
    [i \in 1..Len(Dedup(Evidence)) |->
        [source_type |-> Dedup(Evidence)[i].metadata.source,
         reference |-> Dedup(Evidence)[i].metadata.reference,
         content |-> Dedup(Evidence)[i].page_content]]

\* C19: ask_question answers "no evidence found" and "generation failed" with
\* a normal AnswerResponse carrying explanatory text (without calling the
\* model in the first case, with the retrieved sources in the second), and
\* answers a retrieval failure or an uninitialized RAG system with an HTTP
\* error status and no AnswerResponse
C19_RestFailureModes ==
    last.op = "ask" =>
        /\ ~last.state.rag_system_ready =>
               last.out.status_code = 503 /\ ~last.out.answered
        /\ (last.state.rag_system_ready /\ last.env.retrieval.outcome # "ok") =>
               last.out.status_code = 500 /\ ~last.out.answered
        /\ (/\ last.state.rag_system_ready
            /\ last.env.retrieval.outcome = "ok"
            /\ Evidence = <<>>) =>
               /\ last.out.status_code = 200 /\ last.out.answered
               /\ last.out.answer \notin {NoneText, <<>>}
               /\ last.out.sources = <<>>
               /\ ~last.out.created
               /\ last.out.direct_calls = 0 /\ last.out.chain_calls = 0
        /\ GenerationFailed =>
               /\ last.out.status_code = 200 /\ last.out.answered
               /\ last.out.answer \notin {NoneText, <<>>}
               /\ last.out.sources = EvidenceSources

\* C19 witness: both tiers failed on a request whose evidence held two chunks
\* of one commentary, and the response carries the one source
C19_Witness ==
    /\ last.op = "ask"
    /\ GenerationFailed
    /\ last.env.create = "ok"
    /\ last.env.direct.raised /\ last.env.chain.raised
    /\ Len(Evidence) = 2
    /\ last.out.answered
    /\ Len(last.out.sources) = 1

\* the candidates of the index that a returned document can come from: the
\* chunk with its (source, reference) pair and its content or extract
Origin(doc) ==
    {j \in 1..Len(last.env.cands) :
        /\ PairOf(last.env.cands[j]) = PairOf(doc)
        /\ doc.content \in {last.env.cands[j].page_content,
                            Extract(last.env.cands[j].page_content)}}

\* the rendering of a returned document as a context entry
EntryOf(doc) == FormatEntry([page_content |-> doc.content, metadata |-> doc.metadata])

\* C20: the documents of a RetrieverAgent.process response come in the order
\* in which the index returned their candidates, and the entries of
\* formatted_context are the first occurrences of each (source, reference)
\* pair among the documents, in the same order
C20_OrderFollowsIndex ==
    (last.op = "retrieve" /\ ~last.out.retrieval_error) =>
        /\ \A i \in 1..Len(Documents) : Origin(Documents[i]) # {}
        /\ \A i, k \in 1..Len(Documents) :
               i < k => \E j \in Origin(Documents[i]), m \in Origin(Documents[k]) : j < m
        /\ Documents # <<>> =>
               Split(last.out.response.formatted_context, ParaSep)
                   = [i \in 1..Len(Dedup(Documents)) |-> EntryOf(Dedup(Documents)[i])]

\* C20 witness: the index returned two chunks of one commentary on one verse,
\* both came back as documents, and the context holds one entry
C20_Witness ==
    /\ last.op = "retrieve"
    /\ ~last.out.retrieval_error
    /\ Len(last.env.cands) = 2
    /\ Len(Documents) = 2
    /\ Documents[1].content # Documents[2].content
    /\ Len(Dedup(Documents)) = 1
    /\ Len(Split(last.out.response.formatted_context, ParaSep)) = 1

\* the name of a commentary source: what follows "tafsir_"
TafsirNameOf(source) == SubSeq(source, Len(TafsirPrefix) + 1, Len(source))

\* "[<LABEL> <reference>]: <content>" with the label of the statement
LabelledEntry(doc) ==
    <<"[">>
    \o (IF doc.metadata.source = QuranSrc THEN <<"Q","u","r","a","n">>
        ELSE IF StartsWith(doc.metadata.source, TafsirPrefix)
        THEN <<"T","a","f","s","i","r"," ">> \o TitleCase(TafsirNameOf(doc.metadata.source))
        ELSE doc.metadata.source)
    \o <<" ">> \o doc.metadata.reference \o <<"]",":"," ">> \o doc.content

\* the same, with a commentary rendered as "[Tafsir <name> on <reference>]"
\* and its name left as it is in the source
LabelledEntryOn(doc) ==
    <<"[">>
    \o (IF doc.metadata.source = QuranSrc THEN <<"Q","u","r","a","n">>
        ELSE IF StartsWith(doc.metadata.source, TafsirPrefix)
        THEN <<"T","a","f","s","i","r"," ">> \o TafsirNameOf(doc.metadata.source)
             \o <<" ","o","n">>
        ELSE doc.metadata.source)
    \o <<" ">> \o doc.metadata.reference \o <<"]",":"," ">> \o doc.content

\* C21 as stated: every entry of formatted_context is
\* "[<LABEL> <reference>]: <content>" with LABEL "Quran", "Tafsir <Name>"
\* (prefix stripped, remainder title-cased) or the raw source, and the entries
\* are joined by one blank line
C21_EntriesUseTitleCasedLabel ==
    (last.op = "retrieve" /\ Documents # <<>>) =>
        last.out.response.formatted_context
            = Join([i \in 1..Len(Dedup(Documents)) |-> LabelledEntry(Dedup(Documents)[i])],
                   <<NL, NL>>)

\* C21 amended: a commentary chunk is rendered as
\* "[Tafsir <name> on <reference>]: <content>" with the name exactly as it
\* follows "tafsir_" in the source; a Quran chunk as "[Quran <reference>]:
\* <content>", any other as "[<source> <reference>]: <content>"; the entries
\* are joined by one blank line
C21_EntriesUseSourceNameAndOn ==
    (last.op = "retrieve" /\ Documents # <<>>) =>
        last.out.response.formatted_context
            = Join([i \in 1..Len(Dedup(Documents)) |-> LabelledEntryOn(Dedup(Documents)[i])],
                   <<NL, NL>>)

\* C21 witness: a verse and a commentary chunk were rendered into one context
C21_Witness ==
    /\ last.op = "retrieve"
    /\ Len(Documents) = 2
    /\ Documents[1].metadata.source = QuranSrc
    /\ StartsWith(Documents[2].metadata.source, TafsirPrefix)
    /\ Contains(last.out.response.formatted_context, <<" ","o","n"," ">>)
    /\ Contains(last.out.response.formatted_context, <<NL, NL>>)

\* the direct backend call of tier 1 ended in an exception: either it escaped
\* to the handler, or generate_answer_with_openai turned it into its error text
DirectCallFailed ==
    \/ last.env.direct.raised
    \/ last.env.direct.value = DirectErrorText

\* C22: when the tier-1 direct backend call fails with an exception, tier 2 is
\* attempted for the same request, and tier 1 is attempted at most once
C22_DirectFailureDemotesToChain ==
    (last.op = "ask" /\ ReachedGeneration /\ last.env.create = "ok") =>
        /\ last.out.direct_calls <= 1
        /\ DirectCallFailed => last.out.chain_calls = 1

\* the unwrapping of one element of a list result
UnwrapElement(v) ==
    IF v.kind \in {"message", "str"} THEN v.content ELSE PyStr(v)

\* the normalization of the statement: .content first, then the last element
\* of a list, then dict["content"] or dict["generations"][0][0].text, then str()
StatedNormalization(v) ==
    IF v.kind = "message" THEN v.content
    ELSE IF v.kind = "list"
        THEN (IF v.items = <<>> THEN PyStr(v) ELSE UnwrapElement(v.items[Len(v.items)]))
    ELSE IF v.kind = "dict"
        THEN (IF v.content # NoneText THEN v.content
              ELSE IF v.items # <<>> THEN v.items[1].content
              ELSE PyStr(v))
    ELSE IF v.kind = "str" THEN v.content
    ELSE PyStr(v)

\* C23: whatever shape the tier-2 result has, the answer is a plain string,
\* obtained by .content, else the last element of a list unwrapped, else
\* dict["content"] or dict["generations"][0][0].text, else str() (a message
\* whose content is no string is left aside)
C23_ChainResultIsNormalized ==
    (/\ last.op = "ask" /\ last.out.chain_calls = 1 /\ ~last.env.chain.raised
     /\ last.env.chain.value # Message(NoneText)) =>
        /\ last.out.answered
        /\ last.out.answer # NoneText
        /\ last.out.answer = StatedNormalization(last.env.chain.value)

\* the value a generate call asks for: the override when the parameters carry
\* the key, the value cached on the agent before the call otherwise
Effective(key) ==
    IF key \in last.request.parameters.has
    THEN last.request.parameters[key] ELSE last.before[key]

\* the call asks for a model configuration other than the cached one
ConfigDiffers ==
    \E key \in {"model_name", "temperature", "max_tokens"} :
        Effective(key) # last.before[key]

\* C24: GeneratorAgent.process rebuilds the generator chain exactly when the
\* effective model_name, temperature or max_tokens differs from the cached
\* values; otherwise the cached chain and configuration stay as they were
C24_ReinitIffConfigDiffers ==
    last.op = "generate" =>
        /\ ConfigDiffers =>
               /\ last.out.generator.model_name = Effective("model_name")
               /\ last.out.generator.temperature = Effective("temperature")
               /\ last.out.generator.max_tokens = Effective("max_tokens")
               /\ last.env.init =>
                      last.out.generator.chain =
                          [model_name |-> Effective("model_name"),
                           temperature |-> Effective("temperature"),
                           max_tokens |-> Effective("max_tokens")]
               /\ ~last.env.init => last.out.raised
        /\ ~ConfigDiffers => last.out.generator = last.before
        /\ generator = last.out.generator

\* C24 witness: a call overriding the temperature made the agent build a new
\* chain, different from the one it held
C24_Witness ==
    /\ last.op = "generate"
    /\ last.request.parameters.has = {"temperature"}
    /\ ConfigDiffers
    /\ last.env.init
    /\ last.out.generator.chain # last.before.chain
    /\ last.out.generator.chain.temperature = 1

\* C25: when retrieve_relevant_context returns, whether the search returned
\* documents or raised, the search_kwargs of the retriever it was given are
\* what they were before the call
C25_SearchKwargsRestored ==
    (last.op = "retrieve" /\ HasSearchKwargs(last.out.used)) =>
        last.out.retriever.search_kwargs = last.out.used.search_kwargs

\* the result of a tool call is one of the "... is required" errors
RequiredError ==
    /\ last.out.value.has_error
    /\ last.out.value.error \in {<<"Surah is required">>, <<"Verse is required">>}

\* C26: the lookup_tafsir handler answers with an "... is required" error,
\* without calling the agent, exactly when surah or verse is absent from the
\* parameter object
C26_RequiredErrorIffAbsent ==
    (last.op = "execute_tool" /\ last.tool_call.name = "lookup_tafsir") =>
        (RequiredError <=>
            \/ last.tool_call.parameters.surah = NoneVal
            \/ last.tool_call.parameters.verse = NoneVal)

\* C27: whatever calls came before on the same agent, a call with k = 5 and
\* use_compression = true searches with 15 candidates
C27_DefaultCallSearchesFifteen ==
    (last.op = "retrieve" /\ last.out.k = 5 /\ last.out.use_compression) =>
        last.out.used.search_kwargs.k = 15

\* C28: a generate call without override parameters runs the chain of the
\* configuration the agent was constructed with, whatever earlier calls carried
C28_NoOverrideUsesConstructedConfig ==
    (/\ last.op = "generate"
     /\ last.request.parameters.has \cap {"model_name", "temperature", "max_tokens"} = {}) =>
        last.out.used_chain = InitialGenerator.chain

\* C29: an OpenAIClient() call that returns hands back an instance whose
\* client is set, and a call made while no key is available raises, whatever
\* constructions came before
C29_ClientIsSetOrConstructionRaises ==
    last.op = "openai_client" =>
        /\ ~last.out.raised => last.out.client # "None"
        /\ ~last.key => last.out.raised

\* C30: an in-bounds translation request that leaves translation_name unset,
\* with or without a parameters map, is translated with default_translation
\* and the response names that translation by its display name
C30_UnsetNameUsesDefaultTranslation ==
    (/\ last.op = "translate"
     /\ last.request.translation_name = NoName
     /\ "translation_name" \notin last.request.parameters.has
     /\ TranslationInBounds(last.out.surah, last.out.verse, last.out.end_verse)) =>
        /\ ~last.out.raised
        /\ last.out.response.translation_name = available_translations[default_translation]
        /\ \A i \in 1..Len(last.out.response.translated_text) :
               last.out.response.translated_text[i].wording = "Sahih International English"

====
